---------------------------- MODULE Spec2Model ----------------------------
(***************************************************************************)
(* Speech-synthesis subsystem of community-ai (plugin-node speech service) *)
(*                                                                         *)
(*   - the Synthesis Selector   SpeechService.generate                     *)
(*   - the Remote Adapter       textToSpeech                               *)
(*   - the Local Adapter        generateVitsAudio / processVitsAudio       *)
(*   - the Stream Composer      prependWavHeader                           *)
(*   - the Container Framer     getWavHeader                               *)
(*                                                                         *)
(* Program-counter values are the source lines at which a call is          *)
(* suspended (an await) or about to execute.                               *)
(***************************************************************************)
EXTENDS Integers, Sequences, FiniteSets, TLC

(***************************************************************************)
(* Bounds                                                                  *)
(***************************************************************************)
NumCalls == 1        \* generate calls that may be in progress together
MaxChunks == 2       \* data chunks a source delivers before it ends
MaxChunkLen == 2     \* bytes in one data chunk
MaxSamples == 3      \* floats in the ArrayBuffer of an audio channel
MaxRuns == 6         \* invocations of the tier evaluator's handler

None == "none"
NoError == [by |-> "none", attempt |-> 0, kind |-> "none"]
NoResult == [status |-> "none"]
NoStream == [kind |-> "none"]
NoResponse == [kind |-> "none", status |-> 0, text |-> <<>>]

VARIABLES
    \* ---- configuration storage (runtime.getSetting) ----
    key,            \* TRUE iff ELEVENLABS_XI_API_KEY is set
    \* ---- one generate call each ----
    pc,             \* position of the call in the code
    useVits,        \* the useVits local of generate
    primary,        \* the adapter generate invoked first
    inCatch,        \* TRUE once generate's catch clause has been entered
    thrown,         \* the error in flight to the enclosing catch
    remoteCalls,    \* invocations of textToSpeech
    localCalls,     \* invocations of generateVitsAudio
    httpRequests,   \* fetch requests issued to the remote provider
    engineCalls,    \* invocations of Echogarden.synthesize
    remoteInFlight, \* the fetch has been issued and not yet settled
    localInFlight,  \* the engine has been invoked and not yet settled
    remoteErr,      \* the error textToSpeech failed with
    localErr,       \* the errors generateVitsAudio failed with, in order
    log,            \* errors reported to elizaLogger.error / console.error
    result,         \* what generate handed to its caller
    keySeen,        \* TRUE iff the key was set at some moment of the call
    keyMissed,      \* TRUE iff the key was unset at some moment of the call
    body,           \* the bytes of the response body (response.arrayBuffer)
    stream,         \* the Readable the adapter returned, as constructed
    outputFormat,   \* the ELEVENLABS_OUTPUT_FORMAT value read at line 109
    response,       \* how the fetch settled: rejected, or status and text
    prevPrimary,    \* for the callers it is kept for: the adapter the
                    \* caller's previous call invoked first
    \* ---- one composed stream per call (prependWavHeader) ----
    cpc,            \* "new" before the stream exists, "open" for a composed
                    \* stream, "plain" for a Readable returned as it is
    srcChunks,      \* chunks the source has yet to deliver
    delivered,      \* chunks the source delivered as 'data' events
    srcEnded,       \* the source emitted 'end'
    audioLength,    \* the audioLength argument
    sampleRate,     \* the sampleRate argument
    channelCount,   \* the channelCount argument, Omitted when not passed
    bitsPerSample,  \* the bitsPerSample argument, Omitted when not passed
    wavHeader,      \* the wavHeader constant of the closure
    pushedHeader,   \* the pushedHeader flag of the closure
    headerPushes,   \* number of passThrough.push(wavHeader) executed
    ptBuf,          \* chunks buffered in the returned stream, not yet read
    ptEnded,        \* the returned stream was ended (end() / push(null))
    consumed,       \* bytes the consumer has read from the returned stream
    outEnded,       \* the consumer has observed 'end' on the returned stream
    \* ---- one processVitsAudio invocation ----
    lpc,            \* "start" before the invocation, then "done"
    audio,          \* the engine result handed to processVitsAudio
    wavOut,         \* what processVitsAudio returned or threw
    \* ---- one getWavHeader invocation and a reader of its result ----
    hpc,            \* "start", "built", "parsed"
    hArgs,          \* the four arguments, Omitted where not passed
    hHeader,        \* the buffer getWavHeader returned
    hParsed,        \* the fields a WAV reader recovers from the buffer
    \* ---- the ledger of one user and the badges of the dApp ----
    points,         \* the user's xp_balance
    collected,      \* names of the badges the user holds, as the profile
                    \* lists them
    availableBadges, \* the badges the subgraph lists for the dApp
    \* ---- runs of the tier evaluator's handler for that user ----
    runsStarted,    \* number of handler invocations so far
    rewardBadgeCalls, \* invocations of rewardBadge, in order
    awarded,        \* tier names of the rewardBadge calls that resolved
    tpc,            \* position of the run in the handler
    currentPoints,  \* the currentPoints local
    currentBadges,  \* names of the currentBadges local
    eligibleTier,   \* the eligibleTier local, NoTier for undefined
    tierBadge,      \* the tierBadge local, NoBadge for undefined
    tOutcome,       \* which return statement ended the run
    tThrown,        \* the error the catch clause of the run received
    \* ---- the source of a composed stream ----
    srcErrored,     \* the streams whose source emitted 'error'
    \* ---- one invocation of a reward handler ----
    handlerKind,    \* which of the four handlers
    callback,       \* TRUE iff the caller passed a callback
    rpc,            \* position of the invocation
    creationRequests, \* reward-creation requests sent
    broadcastRequests, \* execute-and-wait requests sent
    creationOk,     \* the creation request returned a success status
    signed,         \* the returned transaction was signed
    broadcastOk,    \* the broadcast succeeded: the reward call resolved
    failed,         \* the catch clause of the handler was entered
    returned,       \* what the handler returned
    callbackLog,    \* what the callback was told, in order
    \* ---- one invocation of a provider ----
    provider,       \* which of the two providers
    ppc,            \* position of the invocation
    provResult      \* what get returned

selVars == <<key, pc, useVits, primary, inCatch, thrown, remoteCalls, localCalls,
             httpRequests, engineCalls, remoteInFlight, localInFlight,
             remoteErr, localErr, log, result, keySeen, keyMissed, body,
             stream, outputFormat, response, prevPrimary>>

compVars == <<cpc, srcChunks, delivered, srcEnded, audioLength, sampleRate,
              channelCount, bitsPerSample, wavHeader, pushedHeader,
              headerPushes, ptBuf, ptEnded, consumed, outEnded>>

locVars == <<lpc, audio, wavOut>>

hdrVars == <<hpc, hArgs, hHeader, hParsed>>

tierVars == <<points, collected, availableBadges, runsStarted,
              rewardBadgeCalls, awarded, tpc, currentPoints, currentBadges,
              eligibleTier, tierBadge, tOutcome, tThrown>>

rewVars == <<handlerKind, callback, rpc, creationRequests, broadcastRequests,
             creationOk, signed, broadcastOk, failed, returned, callbackLog,
             provider, ppc, provResult>>

extVars == <<tierVars, srcErrored, rewVars>>

nonTierVars == <<selVars, compVars, locVars, hdrVars, srcErrored, rewVars>>

pureVars == <<locVars, hdrVars, extVars>>

vars == <<selVars, compVars, locVars, hdrVars, extVars>>

Calls == DOMAIN pc

(***************************************************************************)
(* Errors and results                                                      *)
(***************************************************************************)
RemoteError(kind) == [by |-> "remote", attempt |-> 1, kind |-> kind]
LocalError(n, kind) == [by |-> "local", attempt |-> n, kind |-> kind]
StreamResult(by, shape) == [status |-> "stream", by |-> by, shape |-> shape]
ErrorResult(err) == [status |-> "error", err |-> err]

\* line 100: `Received status ${response.status} from Eleven Labs API:
\* ${errorBodyString}`
StatusError(status, text) ==
    [by |-> "remote", attempt |-> 1, kind |-> "StatusError",
     status |-> status, text |-> text]

OutputFormats == {"pcm_24000", "pcm_16000", "mp3_44100_128", "unset"}
EngineResults == {"Buffer", "RawAudio", "Other", "throw"}

(***************************************************************************)
(* Byte buffers                                                            *)
(***************************************************************************)
SampleBytes == {0, 255}
SampleRates == {8000, 24000}

RECURSIVE SeqsUpTo(_, _)
SeqsUpTo(S, n) ==
    IF n = 0 THEN {<<>>}
    ELSE LET shorter == SeqsUpTo(S, n - 1)
         IN shorter \cup {Append(q, x) : q \in shorter, x \in S}

ChunkSet == SeqsUpTo(SampleBytes, MaxChunkLen)
SourceSet == SeqsUpTo(ChunkSet, MaxChunks)

RECURSIVE Flatten(_)
Flatten(chunks) ==
    IF chunks = <<>> THEN <<>>
    ELSE Head(chunks) \o Flatten(Tail(chunks))

LE16(n) == <<n % 256, (n \div 256) % 256>>
LE32(n) == <<n % 256, (n \div 256) % 256, (n \div 65536) % 256,
             (n \div 16777216) % 256>>

Ascii_RIFF == <<82, 73, 70, 70>>
Ascii_WAVE == <<87, 65, 86, 69>>
Ascii_fmt == <<102, 109, 116, 32>>
Ascii_data == <<100, 97, 116, 97>>

(***************************************************************************)
(* An argument the caller did not pass (undefined): a default parameter    *)
(* value takes its place.                                                  *)
(***************************************************************************)
Omitted == 0 - 1
Default(v, d) == IF v = Omitted THEN d ELSE v

(***************************************************************************)
(* getWavHeader (audioUtils.ts): the 44-byte RIFF/WAVE header of a         *)
(* linear-PCM payload, all numbers little-endian; channel count 1 and bit  *)
(* depth 16 when the caller omits them.                                    *)
(***************************************************************************)
getWavHeader(len, rate, channels, bits) ==
    LET ch == Default(channels, 1)
        bps == Default(bits, 16)
    IN Ascii_RIFF \o LE32(36 + len) \o Ascii_WAVE
       \o Ascii_fmt \o LE32(16) \o LE16(1) \o LE16(ch) \o LE32(rate)
       \o LE32((rate * ch * bps) \div 8)
       \o LE16((ch * bps) \div 8) \o LE16(bps)
       \o Ascii_data \o LE32(len)

(***************************************************************************)
(* A reader of the container: little-endian fields at the offsets of the   *)
(* RIFF/WAVE layout.                                                       *)
(***************************************************************************)
U16At(buf, off) == buf[off + 1] + 256 * buf[off + 2]
U32At(buf, off) == buf[off + 1] + 256 * buf[off + 2] + 65536 * buf[off + 3]
                   + 16777216 * buf[off + 4]

parseWavHeader(buf) ==
    [payloadByteLength |-> U32At(buf, 40),
     sampleRate |-> U32At(buf, 24),
     channelCount |-> U16At(buf, 22),
     bitsPerSample |-> U16At(buf, 34)]

(***************************************************************************)
(* Readable.push on a byte-mode stream: a zero-length chunk adds nothing   *)
(* to the buffer.                                                          *)
(***************************************************************************)
Push(buf, chunk) == IF Len(chunk) > 0 THEN Append(buf, chunk) ELSE buf

(***************************************************************************)
(* The output format setting, as the characters of its value.              *)
(***************************************************************************)
TagChars(fmt) ==
    CASE fmt = "pcm_24000" -> <<"p", "c", "m", "_", "2", "4", "0", "0", "0">>
      [] fmt = "pcm_16000" -> <<"p", "c", "m", "_", "1", "6", "0", "0", "0">>
      [] fmt = "mp3_44100_128" ->
           <<"m", "p", "3", "_", "4", "4", "1", "0", "0", "_", "1", "2", "8">>
      [] OTHER -> <<>>

Digits == <<"0", "1", "2", "3", "4", "5", "6", "7", "8", "9">>
IsDigit(ch) == \E i \in 1..10 : Digits[i] = ch
DigitVal(ch) == (CHOOSE i \in 1..10 : Digits[i] = ch) - 1

\* String.prototype.startsWith
startsWith(chars, prefix) ==
    /\ Len(chars) >= Len(prefix)
    /\ SubSeq(chars, 1, Len(prefix)) = prefix

\* String.prototype.substring(from), from counted from 0
substring(chars, from) ==
    IF from >= Len(chars) THEN <<>> ELSE SubSeq(chars, from + 1, Len(chars))

\* parseInt: the decimal value of the leading digits, NaN when there is none
NaN == 0 - 2

RECURSIVE parseDigits(_, _)
parseDigits(chars, acc) ==
    IF chars = <<>> \/ ~IsDigit(Head(chars)) THEN acc
    ELSE parseDigits(Tail(chars), 10 * acc + DigitVal(Head(chars)))

parseInt(chars) ==
    IF chars = <<>> \/ ~IsDigit(Head(chars)) THEN NaN
    ELSE parseDigits(chars, 0)

(***************************************************************************)
(* Float samples.  A sample is held as a whole number of tenths (5 is 0.5, *)
(* -10 is -1.0, 12 is 1.2).  For these values the float32 nearest to k/10  *)
(* times 32767 rounds to the same integer as the exact product: the        *)
(* products that fall on a half (k an odd multiple of 5) belong to samples *)
(* that float32 holds exactly.                                             *)
(***************************************************************************)
SampleDenom == 10
SampleTenths == {0 - 12, 0 - 10, 0, 5, 10, 12}

\* Math.round(s * 32767): the nearest integer, a half rounded up
RoundScaled(k) == (2 * k * 32767 + SampleDenom) \div (2 * SampleDenom)

\* storing a number in an Int16Array element: modulo 2^16, as two's complement
ToInt16(n) == ((n + 32768) % 65536) - 32768

\* the two bytes of an Int16Array element, little-endian
Int16Bytes(v) == LE16(v % 65536)

RECURSIVE Int16ArrayBytes(_)
Int16ArrayBytes(pcm) ==
    IF pcm = <<>> THEN <<>>
    ELSE Int16Bytes(Head(pcm)) \o Int16ArrayBytes(Tail(pcm))

\* processVitsAudio lines 133-137
convertSamples(floatArray) ==
    [i \in 1..Len(floatArray) |-> ToInt16(RoundScaled(floatArray[i]))]

(***************************************************************************)
(* Engine results.  A channel is a Float32Array: a view of `length` floats *)
(* starting `offset` floats into its ArrayBuffer `buffer`.                 *)
(***************************************************************************)
Channel(buffer, offset, length) ==
    [buffer |-> buffer, offset |-> offset, length |-> length]

ChannelSamples(ch) == SubSeq(ch.buffer, ch.offset + 1, ch.offset + ch.length)

BufferAudio(bytes) ==
    [isObject |-> TRUE, isBuffer |-> TRUE, hasAudioChannels |-> FALSE,
     hasSampleRate |-> FALSE,
     bytes |-> bytes, audioChannels |-> <<>>, sampleRate |-> 0]

RawAudio(channels, rate) ==
    [isObject |-> TRUE, isBuffer |-> FALSE, hasAudioChannels |-> TRUE,
     hasSampleRate |-> TRUE,
     bytes |-> <<>>, audioChannels |-> channels, sampleRate |-> rate]

\* an object that lacks audioChannels, sampleRate or both
OtherAudio(hasChannels, hasRate) ==
    [isObject |-> TRUE, isBuffer |-> FALSE, hasAudioChannels |-> hasChannels,
     hasSampleRate |-> hasRate, bytes |-> <<>>,
     audioChannels |-> IF hasChannels THEN <<Channel(<<0>>, 0, 1)>> ELSE <<>>,
     sampleRate |-> IF hasRate THEN 22050 ELSE 0]

\* a value that is not an object (undefined, null, a string): the
\* parameter is typed `any`
NotAnObject ==
    [isObject |-> FALSE, isBuffer |-> FALSE, hasAudioChannels |-> FALSE,
     hasSampleRate |-> FALSE, bytes |-> <<>>, audioChannels |-> <<>>,
     sampleRate |-> 0]

(***************************************************************************)
(* processVitsAudio lines 121-154.  A Buffer is wrapped as it is; a result *)
(* with audioChannels and sampleRate has the whole ArrayBuffer of its      *)
(* first channel converted and framed; any other object is unsupported.    *)
(***************************************************************************)
processVitsAudio(a) ==
    IF a.isBuffer
    THEN [ok |-> TRUE, shape |-> "encoded", bytes |-> a.bytes]
    ELSE IF ~a.isObject
    THEN \* the `in` operator throws on a value that is not an object
         [ok |-> FALSE, shape |-> "TypeError", bytes |-> <<>>]
    ELSE IF a.hasAudioChannels /\ a.hasSampleRate
    THEN LET floatArray == a.audioChannels[1].buffer
             pcmBuffer == convertSamples(floatArray)
             wavHeaderBuffer ==
                 getWavHeader(Len(pcmBuffer) * 2, a.sampleRate, 1, 16)
         IN [ok |-> TRUE, shape |-> "wav",
             bytes |-> wavHeaderBuffer \o Int16ArrayBytes(pcmBuffer)]
    ELSE [ok |-> FALSE, shape |-> "UnsupportedFormat", bytes |-> <<>>]

\* the results the engine gives in a generate call
EngineAudio(tag) ==
    CASE tag = "Buffer" -> BufferAudio(<<82, 73>>)
      [] tag = "RawAudio" -> RawAudio(<<Channel(<<5>>, 0, 1)>>, 22050)
      [] OTHER -> OtherAudio(FALSE, FALSE)

(***************************************************************************)
(* prependWavHeader lines 13-14: the default parameter values.             *)
(***************************************************************************)
prependWavHeaderDefaults_stereo(channels, bits) ==
    [channelCount |-> Default(channels, 2),
     bitsPerSample |-> Default(bits, 16)]

prependWavHeaderDefaults(channels, bits) ==
    [channelCount |-> Default(channels, 1),
     bitsPerSample |-> Default(bits, 16)]

(***************************************************************************)
(* prependWavHeader lines 9-23 and 34 for the stream of call c: the        *)
(* header is computed, the flag cleared, the PassThrough created and the   *)
(* two listeners attached to the source `chunks`.                          *)
(***************************************************************************)
OpenComposed(c, chunks, len, rate, channels, bits) ==
    LET d == prependWavHeaderDefaults(channels, bits)
    IN /\ cpc' = [cpc EXCEPT ![c] = "open"]
       /\ srcChunks' = [srcChunks EXCEPT ![c] = chunks]
       /\ delivered' = [delivered EXCEPT ![c] = <<>>]
       /\ srcEnded' = [srcEnded EXCEPT ![c] = FALSE]
       /\ audioLength' = [audioLength EXCEPT ![c] = len]
       /\ sampleRate' = [sampleRate EXCEPT ![c] = rate]
       /\ channelCount' = [channelCount EXCEPT ![c] = channels]
       /\ bitsPerSample' = [bitsPerSample EXCEPT ![c] = bits]
       /\ wavHeader' = [wavHeader EXCEPT ![c] =
              getWavHeader(len, rate, d.channelCount, d.bitsPerSample)]
       /\ pushedHeader' = [pushedHeader EXCEPT ![c] = FALSE]
       /\ headerPushes' = [headerPushes EXCEPT ![c] = 0]
       /\ ptBuf' = [ptBuf EXCEPT ![c] = <<>>]
       /\ ptEnded' = [ptEnded EXCEPT ![c] = FALSE]
       /\ consumed' = [consumed EXCEPT ![c] = <<>>]
       /\ outEnded' = [outEnded EXCEPT ![c] = FALSE]

(***************************************************************************)
(* A Readable returned as it is (textToSpeech lines 104-107 and 114,       *)
(* processVitsAudio lines 125 and 149): its bytes are buffered and it has  *)
(* ended.                                                                  *)
(***************************************************************************)
OpenPlain(c, bytes) ==
    /\ cpc' = [cpc EXCEPT ![c] = "plain"]
    /\ srcChunks' = [srcChunks EXCEPT ![c] = <<>>]
    /\ delivered' = [delivered EXCEPT ![c] = <<>>]
    /\ srcEnded' = [srcEnded EXCEPT ![c] = FALSE]
    /\ audioLength' = [audioLength EXCEPT ![c] = 0]
    /\ sampleRate' = [sampleRate EXCEPT ![c] = 0]
    /\ channelCount' = [channelCount EXCEPT ![c] = Omitted]
    /\ bitsPerSample' = [bitsPerSample EXCEPT ![c] = Omitted]
    /\ wavHeader' = [wavHeader EXCEPT ![c] = <<>>]
    /\ pushedHeader' = [pushedHeader EXCEPT ![c] = FALSE]
    /\ headerPushes' = [headerPushes EXCEPT ![c] = 0]
    /\ ptBuf' = [ptBuf EXCEPT ![c] = Push(<<>>, bytes)]
    /\ ptEnded' = [ptEnded EXCEPT ![c] = TRUE]
    /\ consumed' = [consumed EXCEPT ![c] = <<>>]
    /\ outEnded' = [outEnded EXCEPT ![c] = FALSE]

\* no stream yet: the state of a call that has just started
NoStreamYet(c) ==
    /\ cpc' = [cpc EXCEPT ![c] = "new"]
    /\ srcChunks' = [srcChunks EXCEPT ![c] = <<>>]
    /\ delivered' = [delivered EXCEPT ![c] = <<>>]
    /\ srcEnded' = [srcEnded EXCEPT ![c] = FALSE]
    /\ audioLength' = [audioLength EXCEPT ![c] = 0]
    /\ sampleRate' = [sampleRate EXCEPT ![c] = 0]
    /\ channelCount' = [channelCount EXCEPT ![c] = Omitted]
    /\ bitsPerSample' = [bitsPerSample EXCEPT ![c] = Omitted]
    /\ wavHeader' = [wavHeader EXCEPT ![c] = <<>>]
    /\ pushedHeader' = [pushedHeader EXCEPT ![c] = FALSE]
    /\ headerPushes' = [headerPushes EXCEPT ![c] = 0]
    /\ ptBuf' = [ptBuf EXCEPT ![c] = <<>>]
    /\ ptEnded' = [ptEnded EXCEPT ![c] = FALSE]
    /\ consumed' = [consumed EXCEPT ![c] = <<>>]
    /\ outEnded' = [outEnded EXCEPT ![c] = FALSE]

(***************************************************************************)
(* prependWavHeader called on its own, with the source and the arguments   *)
(* the stream was set up with.                                             *)
(***************************************************************************)
PrependWavHeader(c) ==
    /\ cpc[c] = "new"
    /\ OpenComposed(c, srcChunks[c], audioLength[c], sampleRate[c],
                    channelCount[c], bitsPerSample[c])
    /\ UNCHANGED <<selVars, pureVars>>

(***************************************************************************)
(* prependWavHeader lines 24-30: the 'data' listener.  The source is in    *)
(* flowing mode, so the next chunk arrives whether or not the consumer has *)
(* read the previous one.                                                  *)
(***************************************************************************)
OnData(c) ==
    /\ cpc[c] = "open"
    /\ srcChunks[c] # <<>>
    /\ ~srcEnded[c]
    /\ c \notin srcErrored
    /\ LET data == Head(srcChunks[c])
       IN /\ IF ~pushedHeader[c]
             THEN /\ ptBuf' = [ptBuf EXCEPT ![c] =
                                 Push(Push(@, wavHeader[c]), data)]
                  /\ pushedHeader' = [pushedHeader EXCEPT ![c] = TRUE]
                  /\ headerPushes' = [headerPushes EXCEPT ![c] = @ + 1]
             ELSE /\ ptBuf' = [ptBuf EXCEPT ![c] = Push(@, data)]
                  /\ UNCHANGED <<pushedHeader, headerPushes>>
          /\ delivered' = [delivered EXCEPT ![c] = Append(@, data)]
    /\ srcChunks' = [srcChunks EXCEPT ![c] = Tail(@)]
    /\ UNCHANGED <<cpc, srcEnded, audioLength, sampleRate, channelCount,
                   bitsPerSample, wavHeader, ptEnded, consumed, outEnded>>
    /\ UNCHANGED <<selVars, pureVars>>

(***************************************************************************)
(* prependWavHeader lines 31-33: the 'end' listener.                       *)
(***************************************************************************)
OnEnd(c) ==
    /\ cpc[c] = "open"
    /\ srcChunks[c] = <<>>
    /\ ~srcEnded[c]
    /\ c \notin srcErrored
    /\ srcEnded' = [srcEnded EXCEPT ![c] = TRUE]
    /\ ptEnded' = [ptEnded EXCEPT ![c] = TRUE]
    /\ UNCHANGED <<cpc, srcChunks, delivered, audioLength, sampleRate,
                   channelCount, bitsPerSample, wavHeader, pushedHeader,
                   headerPushes, ptBuf, consumed, outEnded>>
    /\ UNCHANGED <<selVars, pureVars>>

(***************************************************************************)
(* prependWavHeader lines 24-33 attach a 'data' and an 'end' listener to   *)
(* the source and nothing else.  A source that fails emits 'error' and is  *)
(* destroyed: it delivers no further chunk and no 'end', and no code of    *)
(* the composer runs for the event.                                        *)
(***************************************************************************)
OnError(c) ==
    /\ cpc[c] = "open"
    /\ ~srcEnded[c]
    /\ c \notin srcErrored
    /\ srcErrored' = srcErrored \cup {c}
    /\ UNCHANGED <<selVars, compVars, locVars, hdrVars, tierVars, rewVars>>

(***************************************************************************)
(* The consumer of the returned stream reads the next buffered chunk, and  *)
(* observes 'end' once the buffer is drained after the stream was ended.   *)
(***************************************************************************)
ConsumerRead(c) ==
    /\ cpc[c] \in {"open", "plain"}
    /\ ptBuf[c] # <<>>
    /\ consumed' = [consumed EXCEPT ![c] = @ \o Head(ptBuf[c])]
    /\ ptBuf' = [ptBuf EXCEPT ![c] = Tail(@)]
    /\ UNCHANGED <<cpc, srcChunks, delivered, srcEnded, audioLength,
                   sampleRate, channelCount, bitsPerSample, wavHeader,
                   pushedHeader, headerPushes, ptEnded, outEnded>>
    /\ UNCHANGED <<selVars, pureVars>>

ConsumerEnd(c) ==
    /\ cpc[c] \in {"open", "plain"}
    /\ ptEnded[c]
    /\ ptBuf[c] = <<>>
    /\ ~outEnded[c]
    /\ outEnded' = [outEnded EXCEPT ![c] = TRUE]
    /\ UNCHANGED <<cpc, srcChunks, delivered, srcEnded, audioLength,
                   sampleRate, channelCount, bitsPerSample, wavHeader,
                   pushedHeader, headerPushes, ptBuf, ptEnded, consumed>>
    /\ UNCHANGED <<selVars, pureVars>>

(***************************************************************************)
(* getVoiceSettings: useVits is the negation of the key's presence.        *)
(***************************************************************************)
getVoiceSettings(k) == [hasElevenLabs |-> k, useVits |-> ~k]

(***************************************************************************)
(* Configuration storage is owned by the caller of the service: the key    *)
(* may be set or removed at any moment, also while a call is suspended.    *)
(***************************************************************************)
SetKey ==
    /\ key' = ~key
    /\ keySeen' = [c \in Calls |->
                     IF pc[c] \notin {"idle", "done"} THEN keySeen[c] \/ key'
                     ELSE keySeen[c]]
    /\ keyMissed' = [c \in Calls |->
                     IF pc[c] \notin {"idle", "done"} THEN keyMissed[c] \/ ~key'
                     ELSE keyMissed[c]]
    /\ UNCHANGED <<pc, useVits, primary, inCatch, thrown, remoteCalls,
                   localCalls, httpRequests, engineCalls, remoteInFlight,
                   localInFlight, remoteErr, localErr, log, result,
                   prevPrimary>>
    /\ UNCHANGED <<body, stream, outputFormat, response, compVars, pureVars>>

(***************************************************************************)
(* SpeechService.generate, entry: a new call starts with fresh locals.     *)
(***************************************************************************)
Generate_cached(c) ==
    /\ pc[c] = "idle"
    /\ pc' = [pc EXCEPT ![c] = IF primary[c] = None THEN "L179" ELSE "L188"]
    /\ UNCHANGED useVits
    /\ primary' = [primary EXCEPT ![c] = None]
    /\ inCatch' = [inCatch EXCEPT ![c] = FALSE]
    /\ thrown' = [thrown EXCEPT ![c] = NoError]
    /\ remoteCalls' = [remoteCalls EXCEPT ![c] = 0]
    /\ localCalls' = [localCalls EXCEPT ![c] = 0]
    /\ httpRequests' = [httpRequests EXCEPT ![c] = 0]
    /\ engineCalls' = [engineCalls EXCEPT ![c] = 0]
    /\ remoteErr' = [remoteErr EXCEPT ![c] = NoError]
    /\ localErr' = [localErr EXCEPT ![c] = <<>>]
    /\ log' = [log EXCEPT ![c] = <<>>]
    /\ result' = [result EXCEPT ![c] = NoResult]
    /\ keySeen' = [keySeen EXCEPT ![c] = key]
    /\ prevPrimary' = [d \in DOMAIN prevPrimary |->
                          IF d = c THEN primary[c] ELSE prevPrimary[d]]
    /\ keyMissed' = [keyMissed EXCEPT ![c] = ~key]
    /\ body' = [body EXCEPT ![c] = <<>>]
    /\ stream' = [stream EXCEPT ![c] = NoStream]
    /\ outputFormat' = [outputFormat EXCEPT ![c] = None]
    /\ response' = [response EXCEPT ![c] = NoResponse]
    /\ NoStreamYet(c)
    /\ UNCHANGED <<key, remoteInFlight, localInFlight>>
    /\ UNCHANGED pureVars

Generate(c) ==
    /\ pc[c] = "idle"
    /\ pc' = [pc EXCEPT ![c] = "L179"]
    /\ useVits' = [useVits EXCEPT ![c] = FALSE]
    /\ primary' = [primary EXCEPT ![c] = None]
    /\ inCatch' = [inCatch EXCEPT ![c] = FALSE]
    /\ thrown' = [thrown EXCEPT ![c] = NoError]
    /\ remoteCalls' = [remoteCalls EXCEPT ![c] = 0]
    /\ localCalls' = [localCalls EXCEPT ![c] = 0]
    /\ httpRequests' = [httpRequests EXCEPT ![c] = 0]
    /\ engineCalls' = [engineCalls EXCEPT ![c] = 0]
    /\ remoteErr' = [remoteErr EXCEPT ![c] = NoError]
    /\ localErr' = [localErr EXCEPT ![c] = <<>>]
    /\ log' = [log EXCEPT ![c] = <<>>]
    /\ result' = [result EXCEPT ![c] = NoResult]
    /\ keySeen' = [keySeen EXCEPT ![c] = key]
    /\ prevPrimary' = [d \in DOMAIN prevPrimary |->
                          IF d = c THEN primary[c] ELSE prevPrimary[d]]
    /\ keyMissed' = [keyMissed EXCEPT ![c] = ~key]
    /\ body' = [body EXCEPT ![c] = <<>>]
    /\ stream' = [stream EXCEPT ![c] = NoStream]
    /\ outputFormat' = [outputFormat EXCEPT ![c] = None]
    /\ response' = [response EXCEPT ![c] = NoResponse]
    /\ NoStreamYet(c)
    /\ UNCHANGED <<key, remoteInFlight, localInFlight>>
    /\ UNCHANGED pureVars

(***************************************************************************)
(* generate line 179: const { useVits } = await getVoiceSettings(runtime)  *)
(***************************************************************************)
GetSettings(c) ==
    /\ pc[c] = "L179"
    /\ useVits' = [useVits EXCEPT ![c] = getVoiceSettings(key).useVits]
    /\ pc' = [pc EXCEPT ![c] = "L188"]
    /\ UNCHANGED <<key, primary, inCatch, thrown, remoteCalls, localCalls,
                   httpRequests, engineCalls, remoteInFlight, localInFlight,
                   remoteErr, localErr, log, result, keySeen,
                   prevPrimary>>
    /\ UNCHANGED <<keyMissed, body, stream, outputFormat, response, compVars,
                   pureVars>>

(***************************************************************************)
(* generate lines 188-196: the Local Adapter when useVits or the key is    *)
(* missing now, else the Remote Adapter.  Both calls are inside the try.   *)
(***************************************************************************)
ChooseAdapter_always_remote(c) ==
    /\ pc[c] = "L188"
    /\ pc' = [pc EXCEPT ![c] = "L73"]
    /\ primary' = [primary EXCEPT ![c] = "remote"]
    /\ remoteCalls' = [remoteCalls EXCEPT ![c] = @ + 1]
    /\ UNCHANGED localCalls
    /\ UNCHANGED <<key, useVits, inCatch, thrown, httpRequests, engineCalls,
                   remoteInFlight, localInFlight, remoteErr, localErr, log,
                   result, keySeen,
                   prevPrimary>>
    /\ UNCHANGED <<keyMissed, body, stream, outputFormat, response, compVars,
                   pureVars>>

ChooseAdapter(c) ==
    /\ pc[c] = "L188"
    /\ IF useVits[c] \/ ~key
         THEN /\ pc' = [pc EXCEPT ![c] = "L160"]
              /\ primary' = [primary EXCEPT ![c] = "local"]
              /\ localCalls' = [localCalls EXCEPT ![c] = @ + 1]
              /\ UNCHANGED remoteCalls
         ELSE /\ pc' = [pc EXCEPT ![c] = "L73"]
              /\ primary' = [primary EXCEPT ![c] = "remote"]
              /\ remoteCalls' = [remoteCalls EXCEPT ![c] = @ + 1]
              /\ UNCHANGED localCalls
    /\ UNCHANGED <<key, useVits, inCatch, thrown, httpRequests, engineCalls,
                   remoteInFlight, localInFlight, remoteErr, localErr, log,
                   result, keySeen,
                   prevPrimary>>
    /\ UNCHANGED <<keyMissed, body, stream, outputFormat, response, compVars,
                   pureVars>>

(***************************************************************************)
(* textToSpeech line 73: await validateNodeConfig(runtime).  The call is   *)
(* outside textToSpeech's own try, so a rejection goes straight to the     *)
(* catch clause of generate.                                               *)
(***************************************************************************)
ValidateConfig_ignore_failure(c) ==
    /\ pc[c] = "L73"
    /\ \E ok \in BOOLEAN :
          /\ pc' = [pc EXCEPT ![c] = "L77"]
          /\ remoteErr' = [remoteErr EXCEPT ![c] =
                              IF ok THEN @ ELSE RemoteError("ConfigError")]
          /\ UNCHANGED thrown
    /\ UNCHANGED <<key, useVits, primary, inCatch, remoteCalls, localCalls,
                   httpRequests, engineCalls, remoteInFlight, localInFlight,
                   localErr, log, result, keySeen,
                   prevPrimary>>
    /\ UNCHANGED <<keyMissed, body, stream, outputFormat, response, compVars,
                   pureVars>>

ValidateConfig(c) ==
    /\ pc[c] = "L73"
    /\ \E ok \in BOOLEAN :
          IF ok
          THEN /\ pc' = [pc EXCEPT ![c] = "L77"]
               /\ UNCHANGED <<thrown, remoteErr>>
          ELSE /\ pc' = [pc EXCEPT ![c] = "L197"]
               /\ thrown' = [thrown EXCEPT ![c] = RemoteError("ConfigError")]
               /\ remoteErr' = [remoteErr EXCEPT ![c] =
                                   RemoteError("ConfigError")]
    /\ UNCHANGED <<key, useVits, primary, inCatch, remoteCalls, localCalls,
                   httpRequests, engineCalls, remoteInFlight, localInFlight,
                   localErr, log, result, keySeen,
                   prevPrimary>>
    /\ UNCHANGED <<keyMissed, body, stream, outputFormat, response, compVars,
                   pureVars>>

(***************************************************************************)
(* textToSpeech lines 74-96: the POST request is issued and awaited.       *)
(***************************************************************************)
Fetch_speculative_local(c) ==
    /\ pc[c] = "L77"
    /\ httpRequests' = [httpRequests EXCEPT ![c] = @ + 1]
    /\ remoteInFlight' = [remoteInFlight EXCEPT ![c] = TRUE]
    /\ localInFlight' = [localInFlight EXCEPT ![c] = TRUE]
    /\ pc' = [pc EXCEPT ![c] = "L96"]
    /\ UNCHANGED <<key, useVits, primary, inCatch, thrown, remoteCalls,
                   localCalls, engineCalls, remoteErr, localErr, log,
                   result, keySeen,
                   prevPrimary>>
    /\ UNCHANGED <<keyMissed, body, stream, outputFormat, response, compVars,
                   pureVars>>

Fetch(c) ==
    /\ pc[c] = "L77"
    /\ httpRequests' = [httpRequests EXCEPT ![c] = @ + 1]
    /\ remoteInFlight' = [remoteInFlight EXCEPT ![c] = TRUE]
    /\ pc' = [pc EXCEPT ![c] = "L96"]
    /\ UNCHANGED <<key, useVits, primary, inCatch, thrown, remoteCalls,
                   localCalls, engineCalls, localInFlight, remoteErr,
                   localErr, log, result, keySeen,
                   prevPrimary>>
    /\ UNCHANGED <<keyMissed, body, stream, outputFormat, response, compVars,
                   pureVars>>

(***************************************************************************)
(* textToSpeech lines 77-101: the fetch settles.  A rejected fetch is a    *)
(* transport failure; a response that is not ok has its text read and the  *)
(* status error thrown.                                                    *)
(***************************************************************************)
StatusCodes == {200, 401}
Bodies == {<<>>, <<0, 255>>}
responseOk(status) == status >= 200 /\ status <= 299

Rejected == [kind |-> "rejected", status |-> 0, text |-> <<>>]
Response(status, text) ==
    [kind |-> "response", status |-> status, text |-> text]

FetchDone_ignore_status(c) ==
    /\ pc[c] = "L96"
    /\ remoteInFlight' = [remoteInFlight EXCEPT ![c] = FALSE]
    /\ \/ /\ pc' = [pc EXCEPT ![c] = "L115"]
          /\ thrown' = [thrown EXCEPT ![c] = RemoteError("TransportError")]
          /\ remoteErr' = [remoteErr EXCEPT ![c] = thrown'[c]]
          /\ response' = [response EXCEPT ![c] = Rejected]
       \/ \E status \in StatusCodes, errorBodyString \in Bodies :
            /\ pc' = [pc EXCEPT ![c] = "L105"]
            /\ response' = [response EXCEPT ![c] =
                  Response(status, IF responseOk(status) THEN <<>>
                                   ELSE errorBodyString)]
            /\ UNCHANGED <<thrown, remoteErr>>
    /\ UNCHANGED <<key, useVits, primary, inCatch, remoteCalls, localCalls,
                   httpRequests, engineCalls, localInFlight, localErr, log,
                   result, keySeen,
                   prevPrimary>>
    /\ UNCHANGED <<keyMissed, body, stream, outputFormat, compVars, pureVars>>

FetchDone(c) ==
    /\ pc[c] = "L96"
    /\ remoteInFlight' = [remoteInFlight EXCEPT ![c] = FALSE]
    /\ \/ \* the fetch promise rejects
          /\ pc' = [pc EXCEPT ![c] = "L115"]
          /\ thrown' = [thrown EXCEPT ![c] = RemoteError("TransportError")]
          /\ remoteErr' = [remoteErr EXCEPT ![c] = thrown'[c]]
          /\ response' = [response EXCEPT ![c] = Rejected]
       \/ \E status \in StatusCodes, errorBodyString \in Bodies :
            IF responseOk(status)
            THEN /\ pc' = [pc EXCEPT ![c] = "L105"]
                 /\ response' = [response EXCEPT ![c] =
                                    Response(status, <<>>)]
                 /\ UNCHANGED <<thrown, remoteErr>>
            ELSE /\ pc' = [pc EXCEPT ![c] = "L115"]
                 /\ response' = [response EXCEPT ![c] =
                                    Response(status, errorBodyString)]
                 /\ thrown' = [thrown EXCEPT ![c] =
                                  StatusError(status, errorBodyString)]
                 /\ remoteErr' = [remoteErr EXCEPT ![c] = thrown'[c]]
    /\ UNCHANGED <<key, useVits, primary, inCatch, remoteCalls, localCalls,
                   httpRequests, engineCalls, localInFlight, localErr, log,
                   result, keySeen,
                   prevPrimary>>
    /\ UNCHANGED <<keyMissed, body, stream, outputFormat, compVars, pureVars>>

(***************************************************************************)
(* textToSpeech lines 104-114: the body is buffered whole and pushed into  *)
(* a new Readable, then the output format setting decides whether that     *)
(* Readable is wrapped by prependWavHeader (with the sample rate parsed    *)
(* from the setting, channel count 1, bit depth 16) or returned as it is.  *)
(* A failure while the body is read, and startsWith on a missing setting,  *)
(* throw inside the try.                                                   *)
(***************************************************************************)
ComposedStream(len, rate, channels, bits) ==
    [kind |-> "composed", audioLength |-> len, sampleRate |-> rate,
     channelCount |-> channels, bitsPerSample |-> bits]

PlainStream(bytes) == [kind |-> "readable", bytes |-> bytes]

ReadBody_wrap_all(c) ==
    /\ pc[c] = "L105"
    /\ \E buffer \in Bodies, fmt \in OutputFormats \ {"unset"} :
          /\ body' = [body EXCEPT ![c] = buffer]
          /\ outputFormat' = [outputFormat EXCEPT ![c] = fmt]
          /\ pc' = [pc EXCEPT ![c] = "done"]
          /\ stream' = [stream EXCEPT ![c] =
                           ComposedStream(Len(buffer), 24000, 1, 16)]
          /\ OpenComposed(c, Push(<<>>, buffer), Len(buffer), 24000, 1, 16)
          /\ result' = [result EXCEPT ![c] =
                           StreamResult("remote", "wrapped")]
          /\ UNCHANGED <<thrown, remoteErr>>
    /\ UNCHANGED <<key, useVits, primary, inCatch, remoteCalls, localCalls,
                   httpRequests, engineCalls, remoteInFlight, localInFlight,
                   localErr, log, keySeen,
                   prevPrimary>>
    /\ UNCHANGED <<keyMissed, response, pureVars>>

ReadBody(c) ==
    /\ pc[c] = "L105"
    /\ \/ \* line 105: response.arrayBuffer() rejects
          /\ pc' = [pc EXCEPT ![c] = "L115"]
          /\ thrown' = [thrown EXCEPT ![c] = RemoteError("TransportError")]
          /\ remoteErr' = [remoteErr EXCEPT ![c] = thrown'[c]]
          /\ UNCHANGED <<result, body, stream, outputFormat, compVars>>
       \/ \E buffer \in Bodies, fmt \in OutputFormats :
            LET readable == Push(<<>>, buffer)
                format == TagChars(fmt)
            IN /\ body' = [body EXCEPT ![c] = buffer]
               /\ outputFormat' = [outputFormat EXCEPT ![c] = fmt]
               /\ IF fmt = "unset"
                  THEN /\ pc' = [pc EXCEPT ![c] = "L115"]
                       /\ thrown' = [thrown EXCEPT ![c] =
                                        RemoteError("TypeError")]
                       /\ remoteErr' = [remoteErr EXCEPT ![c] = thrown'[c]]
                       /\ UNCHANGED <<result, stream, compVars>>
                  ELSE IF startsWith(format, <<"p", "c", "m", "_">>)
                  THEN LET rate == parseInt(substring(format, 4))
                       IN /\ pc' = [pc EXCEPT ![c] = "done"]
                          /\ stream' = [stream EXCEPT ![c] =
                                ComposedStream(Len(buffer), rate, 1, 16)]
                          /\ OpenComposed(c, readable, Len(buffer), rate,
                                          1, 16)
                          /\ result' = [result EXCEPT ![c] =
                                StreamResult("remote", "wrapped")]
                          /\ UNCHANGED <<thrown, remoteErr>>
                  ELSE /\ pc' = [pc EXCEPT ![c] = "done"]
                       /\ stream' = [stream EXCEPT ![c] =
                                        PlainStream(buffer)]
                       /\ OpenPlain(c, buffer)
                       /\ result' = [result EXCEPT ![c] =
                                        StreamResult("remote", "body")]
                       /\ UNCHANGED <<thrown, remoteErr>>
    /\ UNCHANGED <<key, useVits, primary, inCatch, remoteCalls, localCalls,
                   httpRequests, engineCalls, remoteInFlight, localInFlight,
                   localErr, log, keySeen,
                   prevPrimary>>
    /\ UNCHANGED <<keyMissed, response, pureVars>>

(***************************************************************************)
(* textToSpeech lines 115-118: log the error and rethrow it.               *)
(***************************************************************************)
TtsCatch(c) ==
    /\ pc[c] = "L115"
    /\ log' = [log EXCEPT ![c] = Append(@, thrown[c])]
    /\ pc' = [pc EXCEPT ![c] = "L197"]
    /\ UNCHANGED <<key, useVits, primary, inCatch, thrown, remoteCalls,
                   localCalls, httpRequests, engineCalls, remoteInFlight,
                   localInFlight, remoteErr, localErr, result, keySeen,
                   prevPrimary>>
    /\ UNCHANGED <<keyMissed, body, stream, outputFormat, response, compVars,
                   pureVars>>

(***************************************************************************)
(* generate lines 197-200: the catch clause logs whatever the try threw    *)
(* and calls generateVitsAudio.                                            *)
(***************************************************************************)
GenerateCatch_rethrow(c) ==
    /\ pc[c] = "L197"
    /\ log' = [log EXCEPT ![c] = Append(@, thrown[c])]
    /\ inCatch' = [inCatch EXCEPT ![c] = TRUE]
    /\ result' = [result EXCEPT ![c] = ErrorResult(thrown[c])]
    /\ pc' = [pc EXCEPT ![c] = "done"]
    /\ UNCHANGED <<localCalls, thrown>>
    /\ UNCHANGED <<key, useVits, primary, remoteCalls, httpRequests,
                   engineCalls, remoteInFlight, localInFlight, remoteErr,
                   localErr, keySeen,
                   prevPrimary>>
    /\ UNCHANGED <<keyMissed, body, stream, outputFormat, response, compVars,
                   pureVars>>

GenerateCatch_retry_remote(c) ==
    /\ pc[c] = "L197"
    /\ log' = [log EXCEPT ![c] = Append(@, thrown[c])]
    /\ inCatch' = [inCatch EXCEPT ![c] = TRUE]
    /\ thrown' = [thrown EXCEPT ![c] = NoError]
    /\ remoteCalls' = [remoteCalls EXCEPT ![c] = @ + 1]
    /\ pc' = [pc EXCEPT ![c] = "L73"]
    /\ UNCHANGED <<localCalls, result>>
    /\ UNCHANGED <<key, useVits, primary, httpRequests,
                   engineCalls, remoteInFlight, localInFlight, remoteErr,
                   localErr, keySeen,
                   prevPrimary>>
    /\ UNCHANGED <<keyMissed, body, stream, outputFormat, response, compVars,
                   pureVars>>

GenerateCatch(c) ==
    /\ pc[c] = "L197"
    /\ log' = [log EXCEPT ![c] = Append(@, thrown[c])]
    /\ inCatch' = [inCatch EXCEPT ![c] = TRUE]
    /\ thrown' = [thrown EXCEPT ![c] = NoError]
    /\ localCalls' = [localCalls EXCEPT ![c] = @ + 1]
    /\ pc' = [pc EXCEPT ![c] = "L160"]
    /\ UNCHANGED result
    /\ UNCHANGED <<key, useVits, primary, remoteCalls, httpRequests,
                   engineCalls, remoteInFlight, localInFlight, remoteErr,
                   localErr, keySeen,
                   prevPrimary>>
    /\ UNCHANGED <<keyMissed, body, stream, outputFormat, response, compVars,
                   pureVars>>

(***************************************************************************)
(* generateVitsAudio lines 160-164: the engine is invoked and awaited.     *)
(***************************************************************************)
Synthesize(c) ==
    /\ pc[c] = "L160"
    /\ engineCalls' = [engineCalls EXCEPT ![c] = @ + 1]
    /\ localInFlight' = [localInFlight EXCEPT ![c] = TRUE]
    /\ pc' = [pc EXCEPT ![c] = "L161"]
    /\ UNCHANGED <<key, useVits, primary, inCatch, thrown, remoteCalls,
                   localCalls, httpRequests, remoteInFlight, remoteErr,
                   localErr, log, result, keySeen,
                   prevPrimary>>
    /\ UNCHANGED <<keyMissed, body, stream, outputFormat, response, compVars,
                   pureVars>>

(***************************************************************************)
(* generateVitsAudio lines 161-165 settle.  An error raised while the call *)
(* is inside generate's try is caught by generate; one raised inside the   *)
(* catch clause leaves generate.                                           *)
(***************************************************************************)
SurfacedError_first(c, err) ==
    IF remoteErr[c] # NoError THEN remoteErr[c]
    ELSE IF localErr[c] # <<>> THEN localErr[c][1]
    ELSE err

SurfacedError(c, err) == err

SynthesizeDone(c) ==
    /\ pc[c] = "L161"
    /\ localInFlight' = [localInFlight EXCEPT ![c] = FALSE]
    /\ \E tag \in EngineResults :
         LET r == processVitsAudio(EngineAudio(tag))
             err == LocalError(engineCalls[c],
                               IF tag = "throw" THEN "EngineError"
                               ELSE r.shape)
         IN IF tag # "throw" /\ r.ok
            THEN /\ pc' = [pc EXCEPT ![c] = "done"]
                 /\ result' = [result EXCEPT ![c] =
                                  StreamResult("local", r.shape)]
                 /\ stream' = [stream EXCEPT ![c] = PlainStream(r.bytes)]
                 /\ OpenPlain(c, r.bytes)
                 /\ UNCHANGED <<thrown, localErr>>
            ELSE /\ localErr' = [localErr EXCEPT ![c] = Append(@, err)]
                 /\ UNCHANGED <<stream, compVars>>
                 /\ IF inCatch[c]
                    THEN /\ pc' = [pc EXCEPT ![c] = "done"]
                         /\ result' = [result EXCEPT ![c] =
                                         ErrorResult(SurfacedError(c, err))]
                         /\ UNCHANGED thrown
                    ELSE /\ pc' = [pc EXCEPT ![c] = "L197"]
                         /\ thrown' = [thrown EXCEPT ![c] = err]
                         /\ UNCHANGED result
    /\ UNCHANGED <<key, useVits, primary, inCatch, remoteCalls, localCalls,
                   httpRequests, engineCalls, remoteInFlight, remoteErr,
                   log, keySeen,
                   prevPrimary>>
    /\ UNCHANGED <<keyMissed, body, outputFormat, response, pureVars>>

(***************************************************************************)
(* The caller of generate takes the stream or the error; the service is    *)
(* then ready for the next call.                                           *)
(***************************************************************************)
Return(c) ==
    /\ pc[c] = "done"
    /\ pc' = [pc EXCEPT ![c] = "idle"]
    /\ UNCHANGED <<key, useVits, primary, inCatch, thrown, remoteCalls,
                   localCalls, httpRequests, engineCalls, remoteInFlight,
                   localInFlight, remoteErr, localErr, log, result, keySeen,
                   prevPrimary>>
    /\ UNCHANGED <<keyMissed, body, stream, outputFormat, response, compVars,
                   pureVars>>

(***************************************************************************)
(* processVitsAudio applied to one engine result.                          *)
(***************************************************************************)
ChannelSet ==
    {Channel(buf, off, n) :
        buf \in SeqsUpTo(SampleTenths, MaxSamples),
        off \in 0..MaxSamples, n \in 0..MaxSamples}

Float32Arrays == {ch \in ChannelSet : ch.offset + ch.length <= Len(ch.buffer)}

EngineRates == {16000, 22050}

AudioInputs ==
    {BufferAudio(b) : b \in ChunkSet}
    \cup {RawAudio(<<ch>> \o more, rate) :
            ch \in Float32Arrays,
            more \in {<<>>, <<Channel(<<10>>, 0, 1)>>},
            rate \in EngineRates}
    \cup {OtherAudio(TRUE, FALSE), OtherAudio(FALSE, TRUE),
          OtherAudio(FALSE, FALSE), NotAnObject}

ProcessVitsAudio ==
    /\ lpc = "start"
    /\ wavOut' = processVitsAudio(audio)
    /\ lpc' = "done"
    /\ UNCHANGED audio
    /\ UNCHANGED <<selVars, compVars, hdrVars, extVars>>

(***************************************************************************)
(* getWavHeader applied to one set of arguments, by prependWavHeader       *)
(* (lines 16-21, after its own defaults) or directly, and a reader of the  *)
(* header it returned.                                                     *)
(***************************************************************************)
HeaderLengths == {0, 2, 300, 70000, 20000000}
HeaderRates == {8000, 22050, 24000, 44100}
HeaderChannels == {Omitted, 1, 2}
HeaderBits == {Omitted, 8, 16}

HeaderArgs ==
    [payloadByteLength : HeaderLengths, sampleRate : HeaderRates,
     channelCount : HeaderChannels, bitsPerSample : HeaderBits]

BuildHeaderInComposer ==
    /\ hpc = "start"
    /\ LET d == prependWavHeaderDefaults(hArgs.channelCount,
                                         hArgs.bitsPerSample)
       IN hHeader' = getWavHeader(hArgs.payloadByteLength, hArgs.sampleRate,
                                  d.channelCount, d.bitsPerSample)
    /\ hpc' = "built"
    /\ UNCHANGED <<hArgs, hParsed>>
    /\ UNCHANGED <<selVars, compVars, locVars, extVars>>

BuildHeaderDirectly ==
    /\ hpc = "start"
    /\ hHeader' = getWavHeader(hArgs.payloadByteLength, hArgs.sampleRate,
                               hArgs.channelCount, hArgs.bitsPerSample)
    /\ hpc' = "built"
    /\ UNCHANGED <<hArgs, hParsed>>
    /\ UNCHANGED <<selVars, compVars, locVars, extVars>>

ParseHeader ==
    /\ hpc = "built"
    /\ hParsed' = parseWavHeader(hHeader)
    /\ hpc' = "parsed"
    /\ UNCHANGED <<hArgs, hHeader>>
    /\ UNCHANGED <<selVars, compVars, locVars, extVars>>

(***************************************************************************)
(* Text.  A string is a sequence of one-character strings.                 *)
(***************************************************************************)
Letters ==
    [upper |-> <<"A", "B", "C", "D", "E", "F", "G", "H", "I", "J", "K", "L",
                 "M", "N", "O", "P", "Q", "R", "S", "T", "U", "V", "W", "X",
                 "Y", "Z">>,
     lower |-> <<"a", "b", "c", "d", "e", "f", "g", "h", "i", "j", "k", "l",
                 "m", "n", "o", "p", "q", "r", "s", "t", "u", "v", "w", "x",
                 "y", "z">>]

\* String.prototype.toLowerCase
toLowerCase(chars) ==
    [i \in 1..Len(chars) |->
        IF \E k \in 1..Len(Letters.upper) : Letters.upper[k] = chars[i]
        THEN Letters.lower[CHOOSE k \in 1..Len(Letters.upper) :
                                    Letters.upper[k] = chars[i]]
        ELSE chars[i]]

\* String.prototype.includes
includes(chars, sub) ==
    \E i \in 0..(Len(chars) - Len(sub)) :
        SubSeq(chars, i + 1, i + Len(sub)) = sub

\* the decimal digits of a natural number, as the ledger reports xp_balance
RECURSIVE DigitsOf(_)
DigitsOf(n) ==
    IF n < 10 THEN <<Digits[n + 1]>>
    ELSE DigitsOf(n \div 10) \o <<Digits[(n % 10) + 1]>>

\* the index of the first occurrence of ch in chars, 0 when there is none
IndexOf(chars, ch) ==
    IF \E i \in 1..Len(chars) : chars[i] = ch
    THEN CHOOSE i \in 1..Len(chars) :
            chars[i] = ch /\ \A j \in 1..(i - 1) : chars[j] # ch
    ELSE 0

(***************************************************************************)
(* tiers.ts lines 12-18: the tier table.                                   *)
(***************************************************************************)
Str ==
    [Bronze |-> <<"B", "r", "o", "n", "z", "e">>,
     Silver |-> <<"S", "i", "l", "v", "e", "r">>,
     Gold |-> <<"G", "o", "l", "d">>,
     Platinum |-> <<"P", "l", "a", "t", "i", "n", "u", "m">>,
     Diamond |-> <<"D", "i", "a", "m", "o", "n", "d">>,
     \* names of badges that are not tier names
     Early |-> <<"E", "a", "r", "l", "y">>,
     silver_tier |-> <<"s", "i", "l", "v", "e", "r", " ", "t", "i", "e", "r">>,
     GOLD |-> <<"G", "O", "L", "D">>,
     Beta |-> <<"B", "e", "t", "a", " ", "[", "1", "]">>]

tiers ==
    <<[name |-> Str.Bronze, points_required |-> 500],
      [name |-> Str.Silver, points_required |-> 1000],
      [name |-> Str.Gold, points_required |-> 2000],
      [name |-> Str.Platinum, points_required |-> 5000],
      [name |-> Str.Diamond, points_required |-> 10000]>>

NoTier == [name |-> <<>>, points_required |-> 0]

\* Array.prototype.reverse on a copy
Reverse(s) == [i \in 1..Len(s) |-> s[Len(s) + 1 - i]]

(***************************************************************************)
(* Badges of the dApp, as the subgraph lists them (name and id), and the   *)
(* names under which the ledger reports a user's collected badges.         *)
(***************************************************************************)
NoBadge == [name |-> <<>>, id |-> 0]

TierBadges ==
    <<[name |-> Str.Bronze, id |-> 1], [name |-> Str.silver_tier, id |-> 2], [name |-> Str.GOLD, id |-> 3],
      [name |-> Str.Platinum, id |-> 4], [name |-> Str.Diamond, id |-> 5]>>

(***************************************************************************)
(* userProfile.ts lines 74-82 and tiers.ts lines 55-58: the collected      *)
(* badges are written into the profile text with JSON.stringify and read   *)
(* back with a regular expression whose group (\[.*?\]) stops at the first *)
(* "]", followed by JSON.parse.  Each badge is written as {"<name>"}; the  *)
(* description, which the handler does not read, is left out.              *)
(***************************************************************************)
RECURSIVE stringifyEntries(_)
stringifyEntries(names) ==
    IF names = <<>> THEN <<>>
    ELSE <<"{", "\"">> \o Head(names) \o <<"\"", "}">>
         \o (IF Len(names) > 1 THEN <<",">> ELSE <<>>)
         \o stringifyEntries(Tail(names))

\* the group (\[.*?\]): from the "[" to the first "]" after it
captureArray(text) == SubSeq(text, 1, IndexOf(text, "]"))

SyntaxError == [ok |-> FALSE, names |-> <<>>]

\* JSON.parse of the entries after "[" or ","
RECURSIVE parseEntries(_, _)
parseEntries(chars, acc) ==
    IF Len(chars) < 4 \/ chars[1] # "{" \/ chars[2] # "\"" THEN SyntaxError
    ELSE LET rest == SubSeq(chars, 3, Len(chars))
             q == IndexOf(rest, "\"")
         IN IF q = 0 \/ Len(rest) < q + 2 \/ rest[q + 1] # "}"
            THEN SyntaxError
            ELSE LET name == SubSeq(rest, 1, q - 1)
                     after == SubSeq(rest, q + 2, Len(rest))
                 IN IF after = <<"]">>
                    THEN [ok |-> TRUE, names |-> Append(acc, name)]
                    ELSE IF Head(after) = ","
                    THEN parseEntries(Tail(after), Append(acc, name))
                    ELSE SyntaxError

parseBadges(chars) ==
    IF chars = <<"[", "]">> THEN [ok |-> TRUE, names |-> <<>>]
    ELSE IF chars = <<>> \/ Head(chars) # "[" THEN SyntaxError
    ELSE parseEntries(Tail(chars), <<>>)

(***************************************************************************)
(* What userProfileProvider.get returns: the profile text, of which the    *)
(* handler reads the points, the badge list and the wallet address, or a   *)
(* one-line message when the user, the wallet or the ledger is not         *)
(* available (userProfile.ts lines 107-161).                               *)
(***************************************************************************)
ProfileText(xp, held) ==
    [kind |-> "profile",
     xp_balance |-> DigitsOf(xp),
     badges |-> IF Len(held) > 0
                THEN <<"[">> \o stringifyEntries(held) \o <<"]">>
                ELSE <<>>]

MessageText == [kind |-> "message", xp_balance |-> <<>>, badges |-> <<>>]

(***************************************************************************)
(* tiers.ts lines 62-72: the highest tier the points reach for which no    *)
(* collected badge name includes the tier name, letter case aside.         *)
(***************************************************************************)
HoldsTier(held, tier) ==
    \E i \in 1..Len(held) :
        includes(toLowerCase(held[i]), toLowerCase(tier.name))

RECURSIVE findTier(_, _, _)
findTier(ts, xp, held) ==
    IF ts = <<>> THEN NoTier
    ELSE IF /\ xp >= Head(ts).points_required
            /\ ~HoldsTier(held, Head(ts))
         THEN Head(ts)
         ELSE findTier(Tail(ts), xp, held)

findEligibleTier(xp, held) ==
    findTier(Reverse(tiers), xp, held)

\* tiers.ts lines 91-93: the first available badge whose name includes the
\* tier name
RECURSIVE findBadge(_, _)
findBadge(badges, tier) ==
    IF badges = <<>> THEN NoBadge
    ELSE IF includes(toLowerCase(Head(badges).name), toLowerCase(tier.name))
         THEN Head(badges)
         ELSE findBadge(Tail(badges), tier)

(***************************************************************************)
(* part_005 lines 20-166: the tier evaluator's handler.  The positions of  *)
(* a run are the awaits: L28 the profile read, L87 the list of available   *)
(* badges, L101 the second profile read for the wallet address, L125 the   *)
(* badge reward.                                                           *)
(***************************************************************************)
\* every way out of the handler leaves the run at "done" with the outcome
FinishRun(r, outcome, error) ==
    /\ tpc' = [tpc EXCEPT ![r] = "done"]
    /\ tOutcome' = [tOutcome EXCEPT ![r] = outcome]
    /\ tThrown' = [tThrown EXCEPT ![r] = error]

\* line 20: the evaluator is invoked for a message of the user
TierStart(r) ==
    /\ tpc[r] \in {"idle", "done"}
    /\ runsStarted < MaxRuns
    /\ runsStarted' = runsStarted + 1
    /\ tpc' = [tpc EXCEPT ![r] = "L28"]
    /\ currentPoints' = [currentPoints EXCEPT ![r] = 0]
    /\ currentBadges' = [currentBadges EXCEPT ![r] = <<>>]
    /\ eligibleTier' = [eligibleTier EXCEPT ![r] = NoTier]
    /\ tierBadge' = [tierBadge EXCEPT ![r] = NoBadge]
    /\ tOutcome' = [tOutcome EXCEPT ![r] = None]
    /\ tThrown' = [tThrown EXCEPT ![r] = None]
    /\ UNCHANGED <<points, collected, availableBadges, rewardBadgeCalls,
                   awarded>>
    /\ UNCHANGED nonTierVars

\* lines 28-77: the profile text arrives; points and badges are read from
\* it and the tier is chosen
ReadProfile(r) ==
    /\ tpc[r] = "L28"
    /\ \E profileData \in {ProfileText(points, collected), MessageText} :
        LET pointsMatch == profileData.kind = "profile"
            parsed == IF profileData.badges = <<>>
                      THEN [ok |-> TRUE, names |-> <<>>]
                      ELSE parseBadges(captureArray(profileData.badges))
            tier == findEligibleTier(parseInt(profileData.xp_balance),
                                     parsed.names)
        IN IF ~pointsMatch
           THEN /\ FinishRun(r, "no_points", None)
                /\ UNCHANGED <<currentPoints, currentBadges, eligibleTier>>
           ELSE /\ currentPoints' = [currentPoints EXCEPT
                                     ![r] = parseInt(profileData.xp_balance)]
                /\ IF ~parsed.ok
                   THEN /\ FinishRun(r, "error", "SyntaxError")
                        /\ UNCHANGED <<currentBadges, eligibleTier>>
                   ELSE /\ currentBadges' = [currentBadges EXCEPT
                                             ![r] = parsed.names]
                        /\ eligibleTier' = [eligibleTier EXCEPT ![r] = tier]
                        /\ IF tier = NoTier
                           THEN FinishRun(r, "no_tier", None)
                           ELSE /\ tpc' = [tpc EXCEPT ![r] = "L87"]
                                /\ UNCHANGED <<tOutcome, tThrown>>
    /\ UNCHANGED <<points, collected, availableBadges, runsStarted,
                   rewardBadgeCalls, awarded, tierBadge>>
    /\ UNCHANGED nonTierVars

\* lines 87-98: the subgraph answers or fails; the badge of the tier is
\* looked up among the available ones
FetchAvailableBadges(r) ==
    /\ tpc[r] = "L87"
    /\ \E ok \in BOOLEAN :
        LET found == findBadge(availableBadges, eligibleTier[r])
        IN IF ~ok
           THEN /\ FinishRun(r, "error", "SubgraphError")
                /\ UNCHANGED tierBadge
           ELSE /\ tierBadge' = [tierBadge EXCEPT ![r] = found]
                /\ IF found = NoBadge
                   THEN FinishRun(r, "no_badge", None)
                   ELSE /\ tpc' = [tpc EXCEPT ![r] = "L101"]
                        /\ UNCHANGED <<tOutcome, tThrown>>
    /\ UNCHANGED <<points, collected, availableBadges, runsStarted,
                   rewardBadgeCalls, awarded, currentPoints, currentBadges,
                   eligibleTier>>
    /\ UNCHANGED nonTierVars

\* lines 101-130: the second profile text arrives; with a wallet address in
\* it rewardBadge is invoked for the badge of the tier
ReadWallet(r) ==
    /\ tpc[r] = "L101"
    /\ \E providerResponse \in {ProfileText(points, collected), MessageText} :
        IF providerResponse.kind # "profile"
        THEN /\ FinishRun(r, "no_wallet", None)
             /\ UNCHANGED rewardBadgeCalls
        ELSE /\ tpc' = [tpc EXCEPT ![r] = "L125"]
             /\ rewardBadgeCalls' =
                    Append(rewardBadgeCalls,
                           [run |-> r, tier |-> eligibleTier[r].name,
                            badgeId |-> tierBadge[r].id])
             /\ UNCHANGED <<tOutcome, tThrown>>
    /\ UNCHANGED <<points, collected, availableBadges, runsStarted, awarded,
                   currentPoints, currentBadges, eligibleTier, tierBadge>>
    /\ UNCHANGED nonTierVars

\* lines 125-154 and 155-165: rewardBadge settles.  When it resolves the
\* ledger holds the badge; when it rejects the catch clause answers.
RewardBadgeDone(r) ==
    /\ tpc[r] = "L125"
    /\ \E ok \in BOOLEAN :
        IF ok
        THEN /\ collected' = Append(collected, tierBadge[r].name)
             /\ awarded' = Append(awarded, eligibleTier[r].name)
             /\ FinishRun(r, "awarded", None)
        ELSE /\ FinishRun(r, "error", "RewardError")
             /\ UNCHANGED <<collected, awarded>>
    /\ UNCHANGED <<points, availableBadges, runsStarted, rewardBadgeCalls,
                   currentPoints, currentBadges, eligibleTier, tierBadge>>
    /\ UNCHANGED nonTierVars

(***************************************************************************)
(* The reward handlers: rewardAction.handler (rewardPoints.ts 173-258),    *)
(* badgeRewardAction.handler (rewardBadges.ts 177-259),                    *)
(* emojiRewardAction.handler (emojiRewards.ts 160-230) and the handler of  *)
(* the contribution evaluator (part_005 394-479), each with the reward     *)
(* call it makes: RewardAction.reward (rewardPoints.ts 17-129,             *)
(* emojiRewards.ts 14-126) or BadgeRewardAction.rewardBadge                *)
(* (rewardBadges.ts 53-134).  The positions of an invocation are the       *)
(* awaits: "badges" the list of available badges, "details" the model      *)
(* call, "wallet" the wallet provider, "create" the reward-creation        *)
(* request, "sign" the signature, "broadcast" the execute-and-wait         *)
(* request, "account" the account lookup for the success message.  The     *)
(* callback returns a promise that no handler awaits.                      *)
(***************************************************************************)
\* how an HTTP exchange of the reward call settles: the fetch rejects, the
\* status is not a success, the body cannot be read or parsed, or all is
\* well
Exchanges == {"rejected", "status", "unreadable", "ok"}

\* return statement of the handler
HandlerReturn(value) ==
    /\ rpc' = "done"
    /\ returned' = value

\* the catch clause of the handler: the points and badge handlers tell the
\* callback, all four return false
HandlerCatch_rethrow ==
    /\ rpc' = "done"
    /\ returned' = "threw"
    /\ failed' = TRUE
    /\ UNCHANGED callbackLog

HandlerCatch ==
    /\ HandlerReturn("false")
    /\ failed' = TRUE
    /\ callbackLog' = IF callback /\ handlerKind \in {"points", "badge"}
                      THEN Append(callbackLog, "failure")
                      ELSE callbackLog

\* the handler is invoked; it leaves at once for a reaction that is not the
\* fire emoji (emojiRewards.ts 177-180) or for a message of the agent
\* itself (part_005 405-407)
HandlerStart ==
    /\ rpc = "start"
    /\ \E applies \in BOOLEAN :
        IF handlerKind \in {"emoji", "contribution"} /\ ~applies
        THEN HandlerReturn("false")
        ELSE /\ rpc' = CASE handlerKind = "badge" -> "badges"
                         [] handlerKind = "emoji" -> "wallet"
                         [] OTHER -> "details"
             /\ UNCHANGED returned
    /\ UNCHANGED <<handlerKind, callback, creationRequests,
                   broadcastRequests, creationOk, signed, broadcastOk,
                   failed, callbackLog>>
    /\ UNCHANGED <<provider, ppc, provResult>>
    /\ UNCHANGED <<selVars, compVars, locVars, hdrVars, tierVars, srcErrored>>

\* rewardBadges.ts 193: the subgraph answers or fails
BadgesDone ==
    /\ rpc = "badges"
    /\ \E ok \in BOOLEAN :
        IF ok
        THEN /\ rpc' = "details"
             /\ UNCHANGED <<returned, failed, callbackLog>>
        ELSE HandlerCatch
    /\ UNCHANGED <<handlerKind, callback, creationRequests,
                   broadcastRequests, creationOk, signed, broadcastOk>>
    /\ UNCHANGED <<provider, ppc, provResult>>
    /\ UNCHANGED <<selVars, compVars, locVars, hdrVars, tierVars, srcErrored>>

\* rewardPoints.ts 184-189, rewardBadges.ts 196-201, part_005 410-415: the
\* model call fails, or says there is nothing to reward, or says there is
DetailsDone ==
    /\ rpc = "details"
    /\ \E answer \in {"rejected", "no", "yes"} :
        CASE answer = "rejected" -> HandlerCatch
          [] answer = "no" -> /\ HandlerReturn("false")
                              /\ UNCHANGED <<failed, callbackLog>>
          [] OTHER -> /\ rpc' = "wallet"
                      /\ UNCHANGED <<returned, failed, callbackLog>>
    /\ UNCHANGED <<handlerKind, callback, creationRequests,
                   broadcastRequests, creationOk, signed, broadcastOk>>
    /\ UNCHANGED <<provider, ppc, provResult>>
    /\ UNCHANGED <<selVars, compVars, locVars, hdrVars, tierVars, srcErrored>>

\* the wallet provider answered.  Without an address in the answer the
\* handler returns false, the points and badge handlers after asking the
\* user to connect (rewardPoints.ts 214-222, rewardBadges.ts 220-228).
\* With an address the reward call starts: the wallet is built from the
\* private key and the creation request is sent (rewardPoints.ts 20-41).
WalletDone ==
    /\ rpc = "wallet"
    /\ \E hasAddress \in BOOLEAN, walletBuilt \in BOOLEAN :
        IF ~hasAddress
        THEN /\ HandlerReturn("false")
             /\ callbackLog' =
                    IF callback /\ handlerKind \in {"points", "badge"}
                    THEN Append(callbackLog, "connect")
                    ELSE callbackLog
             /\ UNCHANGED <<failed, creationRequests>>
        ELSE IF ~walletBuilt
        THEN /\ HandlerCatch
             /\ UNCHANGED creationRequests
        ELSE /\ rpc' = "create"
             /\ creationRequests' = creationRequests + 1
             /\ UNCHANGED <<returned, failed, callbackLog>>
    /\ UNCHANGED <<handlerKind, callback, broadcastRequests, creationOk,
                   signed, broadcastOk>>
    /\ UNCHANGED <<provider, ppc, provResult>>
    /\ UNCHANGED <<selVars, compVars, locVars, hdrVars, tierVars, srcErrored>>

\* rewardPoints.ts 25-67, rewardBadges.ts 61-90: the creation request
\* settles.  Anything but a success status with a readable body throws.
CreationDone_ignore_status ==
    /\ rpc = "create"
    /\ \E res \in Exchanges :
        IF res \in {"ok", "status"}
        THEN /\ rpc' = "sign"
             /\ creationOk' = (res = "ok")
             /\ UNCHANGED <<returned, failed, callbackLog>>
        ELSE /\ HandlerCatch
             /\ UNCHANGED creationOk
    /\ UNCHANGED <<handlerKind, callback, creationRequests,
                   broadcastRequests, signed, broadcastOk>>
    /\ UNCHANGED <<provider, ppc, provResult>>
    /\ UNCHANGED <<selVars, compVars, locVars, hdrVars, tierVars, srcErrored>>

CreationDone ==
    /\ rpc = "create"
    /\ \E res \in Exchanges :
        IF res = "ok"
        THEN /\ rpc' = "sign"
             /\ creationOk' = TRUE
             /\ UNCHANGED <<returned, failed, callbackLog>>
        ELSE /\ HandlerCatch
             /\ UNCHANGED creationOk
    /\ UNCHANGED <<handlerKind, callback, creationRequests,
                   broadcastRequests, signed, broadcastOk>>
    /\ UNCHANGED <<provider, ppc, provResult>>
    /\ UNCHANGED <<selVars, compVars, locVars, hdrVars, tierVars, srcErrored>>

\* rewardPoints.ts 70-90, rewardBadges.ts 93-111: the signature settles;
\* with the signed transaction the broadcast request is sent
SignDone ==
    /\ rpc = "sign"
    /\ \E ok \in BOOLEAN :
        IF ok
        THEN /\ rpc' = "broadcast"
             /\ signed' = TRUE
             /\ broadcastRequests' = broadcastRequests + 1
             /\ UNCHANGED <<returned, failed, callbackLog>>
        ELSE /\ HandlerCatch
             /\ UNCHANGED <<signed, broadcastRequests>>
    /\ UNCHANGED <<handlerKind, callback, creationRequests, creationOk,
                   broadcastOk>>
    /\ UNCHANGED <<provider, ppc, provResult>>
    /\ UNCHANGED <<selVars, compVars, locVars, hdrVars, tierVars, srcErrored>>

\* rewardPoints.ts 77-116 and 233-247, rewardBadges.ts 98-129 and 233-247,
\* emojiRewards.ts 207-211, part_005 440-444: the broadcast settles.  On
\* success the reward call resolves; the points and badge handlers tell the
\* callback and return true, the other two first look the account up when
\* there is a callback.
BroadcastDone ==
    /\ rpc = "broadcast"
    /\ \E res \in Exchanges :
        IF res # "ok"
        THEN /\ HandlerCatch
             /\ UNCHANGED broadcastOk
        ELSE /\ broadcastOk' = TRUE
             /\ IF callback /\ handlerKind \in {"emoji", "contribution"}
                THEN /\ rpc' = "account"
                     /\ UNCHANGED <<returned, failed, callbackLog>>
                ELSE /\ HandlerReturn("true")
                     /\ callbackLog' = IF callback
                                       THEN Append(callbackLog, "success")
                                       ELSE callbackLog
                     /\ UNCHANGED failed
    /\ UNCHANGED <<handlerKind, callback, creationRequests,
                   broadcastRequests, creationOk, signed>>
    /\ UNCHANGED <<provider, ppc, provResult>>
    /\ UNCHANGED <<selVars, compVars, locVars, hdrVars, tierVars, srcErrored>>

\* emojiRewards.ts 211-226, part_005 443-478: the account lookup settles
AccountDone ==
    /\ rpc = "account"
    /\ \E ok \in BOOLEAN :
        IF ok
        THEN /\ HandlerReturn("true")
             /\ callbackLog' = Append(callbackLog, "success")
             /\ UNCHANGED failed
        ELSE HandlerCatch
    /\ UNCHANGED <<handlerKind, callback, creationRequests,
                   broadcastRequests, creationOk, signed, broadcastOk>>
    /\ UNCHANGED <<provider, ppc, provResult>>
    /\ UNCHANGED <<selVars, compVars, locVars, hdrVars, tierVars, srcErrored>>

(***************************************************************************)
(* The providers: socialToWalletProvider.get (part_001 66-113) and         *)
(* userProfileProvider.get (userProfile.ts 101-163).  The whole body of    *)
(* each is inside one try whose catch returns a string.                    *)
(***************************************************************************)
NoProvResult == [type |-> "none", text |-> "none"]
StringResult(text) == [type |-> "string", text |-> text]

\* part_001 109-112, userProfile.ts 158-161
ProviderCatch ==
    /\ ppc' = "done"
    /\ provResult' = StringResult("error")

ProviderReturn(text) ==
    /\ ppc' = "done"
    /\ provResult' = StringResult(text)

\* part_001 72, userProfile.ts 108: get is called and looks the account up
ProviderStart ==
    /\ ppc = "start"
    /\ ppc' = "account"
    /\ UNCHANGED <<provider, provResult>>
    /\ UNCHANGED <<handlerKind, callback, rpc, creationRequests,
                   broadcastRequests, creationOk, signed, broadcastOk,
                   failed, returned, callbackLog>>
    /\ UNCHANGED <<selVars, compVars, locVars, hdrVars, tierVars, srcErrored>>

\* part_001 72-75, userProfile.ts 108-111
ProviderAccountDone ==
    /\ ppc = "account"
    /\ \E account \in {"rejected", "no_username", "found"} :
        CASE account = "rejected" -> ProviderCatch
          [] account = "no_username" -> ProviderReturn("no_username")
          [] OTHER -> /\ ppc' = "privy"
                      /\ UNCHANGED provResult
    /\ UNCHANGED provider
    /\ UNCHANGED <<handlerKind, callback, rpc, creationRequests,
                   broadcastRequests, creationOk, signed, broadcastOk,
                   failed, returned, callbackLog>>
    /\ UNCHANGED <<selVars, compVars, locVars, hdrVars, tierVars, srcErrored>>

\* part_001 88-108, userProfile.ts 114-143: the Privy lookup settles; the
\* wallet provider answers with the address, the profile provider goes on
\* to ask the ledger
ProviderPrivyDone ==
    /\ ppc = "privy"
    /\ \E user \in {"rejected", "none", "no_wallet", "wallet"} :
        CASE user = "rejected" -> ProviderCatch
          [] user = "none" -> ProviderReturn("no_privy_account")
          [] user = "no_wallet" -> ProviderReturn("no_wallet")
          [] OTHER -> IF provider = "socialToWallet"
                      THEN ProviderReturn("wallet_address")
                      ELSE /\ ppc' = "profile"
                           /\ UNCHANGED provResult
    /\ UNCHANGED provider
    /\ UNCHANGED <<handlerKind, callback, rpc, creationRequests,
                   broadcastRequests, creationOk, signed, broadcastOk,
                   failed, returned, callbackLog>>
    /\ UNCHANGED <<selVars, compVars, locVars, hdrVars, tierVars, srcErrored>>

\* userProfile.ts 134-156: the profile request settles
ProviderProfileDone ==
    /\ ppc = "profile"
    /\ \E res \in Exchanges :
        IF res = "ok" THEN ProviderReturn("profile") ELSE ProviderCatch
    /\ UNCHANGED provider
    /\ UNCHANGED <<handlerKind, callback, rpc, creationRequests,
                   broadcastRequests, creationOk, signed, broadcastOk,
                   failed, returned, callbackLog>>
    /\ UNCHANGED <<selVars, compVars, locVars, hdrVars, tierVars, srcErrored>>

(***************************************************************************)
(* Initial states                                                          *)
(***************************************************************************)
SelInit(S) ==
    /\ key \in BOOLEAN
    /\ pc = [c \in S |-> "idle"]
    /\ useVits = [c \in S |-> FALSE]
    /\ primary = [c \in S |-> None]
    /\ inCatch = [c \in S |-> FALSE]
    /\ thrown = [c \in S |-> NoError]
    /\ remoteCalls = [c \in S |-> 0]
    /\ localCalls = [c \in S |-> 0]
    /\ httpRequests = [c \in S |-> 0]
    /\ engineCalls = [c \in S |-> 0]
    /\ remoteInFlight = [c \in S |-> FALSE]
    /\ localInFlight = [c \in S |-> FALSE]
    /\ remoteErr = [c \in S |-> NoError]
    /\ localErr = [c \in S |-> <<>>]
    /\ log = [c \in S |-> <<>>]
    /\ result = [c \in S |-> NoResult]
    /\ keySeen = [c \in S |-> FALSE]
    /\ keyMissed = [c \in S |-> FALSE]
    /\ body = [c \in S |-> <<>>]
    /\ stream = [c \in S |-> NoStream]
    /\ outputFormat = [c \in S |-> None]
    /\ response = [c \in S |-> NoResponse]

CompIdle(S) ==
    /\ cpc = [c \in S |-> "new"]
    /\ srcChunks = [c \in S |-> <<>>]
    /\ delivered = [c \in S |-> <<>>]
    /\ srcEnded = [c \in S |-> FALSE]
    /\ audioLength = [c \in S |-> 0]
    /\ sampleRate = [c \in S |-> 0]
    /\ channelCount = [c \in S |-> Omitted]
    /\ bitsPerSample = [c \in S |-> Omitted]
    /\ wavHeader = [c \in S |-> <<>>]
    /\ pushedHeader = [c \in S |-> FALSE]
    /\ headerPushes = [c \in S |-> 0]
    /\ ptBuf = [c \in S |-> <<>>]
    /\ ptEnded = [c \in S |-> FALSE]
    /\ consumed = [c \in S |-> <<>>]
    /\ outEnded = [c \in S |-> FALSE]

\* textToSpeech line 111 passes the byte length of the whole body, channel
\* count 1 and bit depth 16
CompInit(S) ==
    /\ cpc = [c \in S |-> "new"]
    /\ srcChunks \in [S -> SourceSet]
    /\ delivered = [c \in S |-> <<>>]
    /\ srcEnded = [c \in S |-> FALSE]
    /\ audioLength = [c \in S |-> Len(Flatten(srcChunks[c]))]
    /\ sampleRate \in [S -> SampleRates]
    /\ channelCount = [c \in S |-> 1]
    /\ bitsPerSample = [c \in S |-> 16]
    /\ wavHeader = [c \in S |-> <<>>]
    /\ pushedHeader = [c \in S |-> FALSE]
    /\ headerPushes = [c \in S |-> 0]
    /\ ptBuf = [c \in S |-> <<>>]
    /\ ptEnded = [c \in S |-> FALSE]
    /\ consumed = [c \in S |-> <<>>]
    /\ outEnded = [c \in S |-> FALSE]

LocIdle ==
    /\ lpc = "done"
    /\ audio = OtherAudio(FALSE, FALSE)
    /\ wavOut = processVitsAudio(audio)

HdrIdle ==
    /\ hpc = "parsed"
    /\ hArgs = [payloadByteLength |-> 0, sampleRate |-> 0,
                channelCount |-> Omitted, bitsPerSample |-> Omitted]
    /\ hHeader = <<>>
    /\ hParsed = [payloadByteLength |-> 0, sampleRate |-> 0,
                  channelCount |-> 0, bitsPerSample |-> 0]

RewIdle ==
    /\ handlerKind = "points"
    /\ callback = FALSE
    /\ rpc = "idle"
    /\ creationRequests = 0
    /\ broadcastRequests = 0
    /\ creationOk = FALSE
    /\ signed = FALSE
    /\ broadcastOk = FALSE
    /\ failed = FALSE
    /\ returned = None
    /\ callbackLog = <<>>
    /\ provider = "socialToWallet"
    /\ ppc = "idle"
    /\ provResult = NoProvResult

TierIdle ==
    /\ points = 0
    /\ collected = <<>>
    /\ availableBadges = <<>>
    /\ runsStarted = 0
    /\ rewardBadgeCalls = <<>>
    /\ awarded = <<>>
    /\ tpc = <<>>
    /\ currentPoints = <<>>
    /\ currentBadges = <<>>
    /\ eligibleTier = <<>>
    /\ tierBadge = <<>>
    /\ tOutcome = <<>>
    /\ tThrown = <<>>

\* the users the evaluator meets: points below, between and above the
\* thresholds; no badge, badges of no tier, badges of tiers
TierInit(S) ==
    /\ points \in {400, 561, 750, 1500, 10000}
    /\ collected \in {<<>>, <<Str.Early>>, <<Str.Bronze>>,
                      <<Str.silver_tier, Str.Bronze>>, <<Str.Beta>>}
    \* the dApp has a badge for every tier, or for every tier but Silver
    /\ availableBadges \in
          {TierBadges,
           <<[name |-> Str.Bronze, id |-> 1], [name |-> Str.GOLD, id |-> 3],
             [name |-> Str.Platinum, id |-> 4],
             [name |-> Str.Diamond, id |-> 5]>>}
    /\ runsStarted = 0
    /\ rewardBadgeCalls = <<>>
    /\ awarded = <<>>
    /\ tpc = [r \in S |-> "idle"]
    /\ currentPoints = [r \in S |-> 0]
    /\ currentBadges = [r \in S |-> <<>>]
    /\ eligibleTier = [r \in S |-> NoTier]
    /\ tierBadge = [r \in S |-> NoBadge]
    /\ tOutcome = [r \in S |-> None]
    /\ tThrown = [r \in S |-> None]

OneStream == {1}
TwoCalls == {1, 2}

\* no caller's previous call is kept
NoHistory == [c \in {} |-> None]

Init ==
    /\ SelInit(1..NumCalls)
    /\ prevPrimary = NoHistory
    /\ CompIdle(1..NumCalls)
    /\ LocIdle
    /\ HdrIdle
    /\ TierIdle
    /\ srcErrored = {}
    /\ RewIdle

\* one caller that calls generate again and again, its previous call kept
SeqInit ==
    /\ SelInit(OneStream)
    /\ prevPrimary = [c \in OneStream |-> None]
    /\ CompIdle(OneStream)
    /\ LocIdle
    /\ HdrIdle
    /\ TierIdle
    /\ srcErrored = {}
    /\ RewIdle

ComposerInit ==
    /\ SelInit(OneStream)
    /\ prevPrimary = NoHistory
    /\ key = FALSE
    /\ CompInit(OneStream)
    /\ LocIdle
    /\ HdrIdle
    /\ TierIdle
    /\ srcErrored = {}
    /\ RewIdle

ConcInit ==
    /\ SelInit(TwoCalls)
    /\ prevPrimary = NoHistory
    /\ CompIdle(TwoCalls)
    /\ LocIdle
    /\ HdrIdle
    /\ TierIdle
    /\ srcErrored = {}
    /\ RewIdle

LocalInit ==
    /\ SelInit(OneStream)
    /\ prevPrimary = NoHistory
    /\ key = FALSE
    /\ CompIdle(OneStream)
    /\ lpc = "start"
    /\ audio \in AudioInputs
    /\ wavOut = [ok |-> FALSE, shape |-> "none", bytes |-> <<>>]
    /\ HdrIdle
    /\ TierIdle
    /\ srcErrored = {}
    /\ RewIdle

HeaderInit ==
    /\ SelInit(OneStream)
    /\ prevPrimary = NoHistory
    /\ key = FALSE
    /\ CompIdle(OneStream)
    /\ LocIdle
    /\ hpc = "start"
    /\ hArgs \in HeaderArgs
    /\ hHeader = <<>>
    /\ hParsed = [payloadByteLength |-> 0, sampleRate |-> 0,
                  channelCount |-> 0, bitsPerSample |-> 0]
    /\ TierIdle
    /\ srcErrored = {}
    /\ RewIdle

(***************************************************************************)
(* Specifications                                                          *)
(***************************************************************************)
Next ==
    \/ SetKey
    \/ \E c \in Calls : Generate(c)
    \/ \E c \in Calls : GetSettings(c)
    \/ \E c \in Calls : ChooseAdapter(c)
    \/ \E c \in Calls : ValidateConfig(c)
    \/ \E c \in Calls : Fetch(c)
    \/ \E c \in Calls : FetchDone(c)
    \/ \E c \in Calls : ReadBody(c)
    \/ \E c \in Calls : TtsCatch(c)
    \/ \E c \in Calls : GenerateCatch(c)
    \/ \E c \in Calls : Synthesize(c)
    \/ \E c \in Calls : SynthesizeDone(c)
    \/ \E c \in Calls : Return(c)

Spec == Init /\ [][Next]_vars

SeqSpec == SeqInit /\ [][Next]_vars

ComposerNext ==
    \/ \E c \in Calls : PrependWavHeader(c)
    \/ \E c \in Calls : OnData(c)
    \/ \E c \in Calls : OnEnd(c)
    \/ \E c \in Calls : ConsumerRead(c)
    \/ \E c \in Calls : ConsumerEnd(c)

ComposerSpec == ComposerInit /\ [][ComposerNext]_vars

\* the composer over sources that may fail; the source keeps flowing and
\* the consumer keeps reading
ComposerFairSpec ==
    /\ ComposerInit
    /\ [][ComposerNext \/ \E c \in Calls : OnError(c)]_vars
    /\ WF_vars(ComposerNext)

\* two generate calls in progress together, each followed by the
\* consumption of the stream it returned
ConcNext ==
    \/ SetKey
    \/ \E c \in Calls : Generate(c)
    \/ \E c \in Calls : GetSettings(c)
    \/ \E c \in Calls : ChooseAdapter(c)
    \/ \E c \in Calls : ValidateConfig(c)
    \/ \E c \in Calls : Fetch(c)
    \/ \E c \in Calls : FetchDone(c)
    \/ \E c \in Calls : ReadBody(c)
    \/ \E c \in Calls : TtsCatch(c)
    \/ \E c \in Calls : GenerateCatch(c)
    \/ \E c \in Calls : Synthesize(c)
    \/ \E c \in Calls : SynthesizeDone(c)
    \/ \E c \in Calls : OnData(c)
    \/ \E c \in Calls : OnEnd(c)
    \/ \E c \in Calls : ConsumerRead(c)
    \/ \E c \in Calls : ConsumerEnd(c)

ConcSpec == ConcInit /\ [][ConcNext]_vars

LocalNext == ProcessVitsAudio

LocalSpec == LocalInit /\ [][LocalNext]_vars

HeaderNext ==
    \/ BuildHeaderInComposer
    \/ BuildHeaderDirectly
    \/ ParseHeader

HeaderSpec == HeaderInit /\ [][HeaderNext]_vars

\* one user whose messages are evaluated one after the other
TierSeqInit ==
    /\ SelInit(OneStream)
    /\ prevPrimary = NoHistory
    /\ key = FALSE
    /\ CompIdle(OneStream)
    /\ LocIdle
    /\ HdrIdle
    /\ TierInit(OneStream)
    /\ srcErrored = {}
    /\ RewIdle

TierNext ==
    \/ \E r \in DOMAIN tpc : TierStart(r)
    \/ \E r \in DOMAIN tpc : ReadProfile(r)
    \/ \E r \in DOMAIN tpc : FetchAvailableBadges(r)
    \/ \E r \in DOMAIN tpc : ReadWallet(r)
    \/ \E r \in DOMAIN tpc : RewardBadgeDone(r)

TierSpec == TierSeqInit /\ [][TierNext]_vars

\* one invocation of a reward handler and one of a provider
RewardInit ==
    /\ SelInit(OneStream)
    /\ prevPrimary = NoHistory
    /\ key = FALSE
    /\ CompIdle(OneStream)
    /\ LocIdle
    /\ HdrIdle
    /\ TierIdle
    /\ srcErrored = {}
    /\ handlerKind \in {"points", "badge", "emoji", "contribution"}
    /\ callback \in BOOLEAN
    /\ rpc = "start"
    /\ creationRequests = 0
    /\ broadcastRequests = 0
    /\ creationOk = FALSE
    /\ signed = FALSE
    /\ broadcastOk = FALSE
    /\ failed = FALSE
    /\ returned = None
    /\ callbackLog = <<>>
    /\ provider \in {"socialToWallet", "userProfile"}
    /\ ppc = "start"
    /\ provResult = NoProvResult

RewardNext ==
    \/ HandlerStart
    \/ BadgesDone
    \/ DetailsDone
    \/ WalletDone
    \/ CreationDone
    \/ SignDone
    \/ BroadcastDone
    \/ AccountDone
    \/ ProviderStart
    \/ ProviderAccountDone
    \/ ProviderPrivyDone
    \/ ProviderProfileDone

RewardSpec == RewardInit /\ [][RewardNext]_vars

\* two messages of one user evaluated together (alwaysRun, line 219)
TierConcInit ==
    /\ SelInit(OneStream)
    /\ prevPrimary = NoHistory
    /\ key = FALSE
    /\ CompIdle(OneStream)
    /\ LocIdle
    /\ HdrIdle
    /\ TierInit(TwoCalls)
    /\ srcErrored = {}
    /\ RewIdle

\* each of the two runs is one invocation of the handler
TierConcNext ==
    \/ \E r \in DOMAIN tpc : tpc[r] = "idle" /\ TierStart(r)
    \/ \E r \in DOMAIN tpc : ReadProfile(r)
    \/ \E r \in DOMAIN tpc : FetchAvailableBadges(r)
    \/ \E r \in DOMAIN tpc : ReadWallet(r)
    \/ \E r \in DOMAIN tpc : RewardBadgeDone(r)

TierConcSpec == TierConcInit /\ [][TierConcNext]_vars

(***************************************************************************)
(* Awaited operations settle: under this assumption every step of a call   *)
(* that is enabled is eventually taken.                                    *)
(***************************************************************************)
CallStep(c) ==
    \/ GetSettings(c)
    \/ ChooseAdapter(c)
    \/ ValidateConfig(c)
    \/ Fetch(c)
    \/ FetchDone(c)
    \/ ReadBody(c)
    \/ TtsCatch(c)
    \/ GenerateCatch(c)
    \/ Synthesize(c)
    \/ SynthesizeDone(c)

FairSpec == Spec /\ \A c \in 1..NumCalls : WF_vars(CallStep(c))

(***************************************************************************)
(* Properties of the Synthesis Selector                                    *)
(***************************************************************************)
Range(q) == {q[i] : i \in 1..Len(q)}
Last(q) == q[Len(q)]
Finished(c) == pc[c] = "done"
IsStream(r) == r.status = "stream"
IsError(r) == r.status = "error"

\* C1: when the Remote Adapter was invoked and failed, for whatever reason,
\* the Local Adapter has been invoked by the time generate finishes, and if
\* the Local Adapter succeeded generate returns the Local Adapter's stream.
C1_RemoteFailureFallsBackToLocal ==
    \A c \in Calls :
        (Finished(c) /\ remoteErr[c] # NoError)
            => /\ localCalls[c] >= 1
               /\ engineCalls[c] >= 1
               /\ (localErr[c] = <<>>
                      => IsStream(result[c]) /\ result[c].by = "local")

C1_Witness ==
    \E c \in Calls :
        /\ Finished(c)
        /\ remoteErr[c].kind = "StatusError"
        /\ result[c] = StreamResult("local", "wav")

\* C2: when the key was absent during the whole of a generate call, the
\* Remote Adapter is never invoked and no HTTP request is issued in that
\* call, whatever the Local Adapter's outcome.
C2_NoKeyNoRemote ==
    \A c \in Calls :
        (pc[c] # "idle" /\ ~keySeen[c])
            => remoteCalls[c] = 0 /\ httpRequests[c] = 0

C2_Witness ==
    \E c \in Calls :
        /\ Finished(c)
        /\ ~keySeen[c]
        /\ IsError(result[c])

\* C3: when both adapters fail in one call, generate fails with the error
\* of the Local Adapter's last invocation, never with the Remote Adapter's;
\* the Remote Adapter's error is in the log before the fallback starts.
C3_BothFailSurfacesLocalError ==
    \A c \in Calls :
        /\ (remoteErr[c] # NoError /\ localCalls[c] > 0)
              => remoteErr[c] \in Range(log[c])
        /\ (Finished(c) /\ remoteErr[c] # NoError /\ localErr[c] # <<>>)
              => /\ IsError(result[c])
                 /\ result[c].err = Last(localErr[c])
                 /\ result[c].err.by = "local"
                 /\ result[c].err # remoteErr[c]

C3_Witness ==
    \E c \in Calls :
        /\ Finished(c)
        /\ remoteErr[c] = RemoteError("TransportError")
        /\ result[c] = ErrorResult(LocalError(1, "EngineError"))

\* C4: when the Local Adapter is the primary adapter and fails, the failure
\* is final: the engine was invoked exactly once in the call and generate
\* fails with the error of that invocation.
C4_LocalPrimaryFailureIsFinal ==
    \A c \in Calls :
        (Finished(c) /\ primary[c] = "local" /\ localErr[c] # <<>>)
            => /\ engineCalls[c] = 1
               /\ result[c] = ErrorResult(localErr[c][1])

\* C5 (as stated): when validateNodeConfig fails, generate fails with that
\* configuration error and neither an HTTP request nor an engine invocation
\* happens in the call.
C5_ConfigErrorIsFatal ==
    \A c \in Calls :
        (Finished(c) /\ remoteErr[c] = RemoteError("ConfigError"))
            => /\ result[c] = ErrorResult(RemoteError("ConfigError"))
               /\ httpRequests[c] = 0
               /\ engineCalls[c] = 0

\* C5 (amended): when validateNodeConfig fails, no HTTP request is issued
\* in the call; the configuration error is logged and the Local Adapter is
\* invoked once as the fallback, so generate returns the Local Adapter's
\* stream or fails with the Local Adapter's error.
C5_ConfigErrorFallsBack ==
    \A c \in Calls :
        (pc[c] # "idle" /\ remoteErr[c] = RemoteError("ConfigError"))
            => /\ httpRequests[c] = 0
               /\ Finished(c)
                    => /\ RemoteError("ConfigError") \in Range(log[c])
                       /\ engineCalls[c] = 1
                       /\ \/ IsStream(result[c]) /\ result[c].by = "local"
                          \/ /\ localErr[c] # <<>>
                             /\ result[c] = ErrorResult(Last(localErr[c]))

C5_Witness ==
    \E c \in Calls :
        /\ Finished(c)
        /\ remoteErr[c] = RemoteError("ConfigError")
        /\ IsStream(result[c])

\* C6: over a whole generate call the Remote Adapter is invoked at most
\* once, at most two adapter invocations happen, no adapter is running or
\* invoked once a result exists, and every call that starts finishes.
C6_Counts ==
    \A c \in Calls :
        /\ remoteCalls[c] <= 1
        /\ remoteCalls[c] + localCalls[c] <= 2
        /\ httpRequests[c] <= 1
        /\ engineCalls[c] <= 2
        /\ (pc[c] # "idle" /\ result[c] # NoResult) => Finished(c)

C6_AtMostOneFallback ==
    /\ []C6_Counts
    /\ \A c \in 1..NumCalls : (pc[c] = "L179") ~> Finished(c)

C6_Witness ==
    \E c \in Calls :
        /\ Finished(c)
        /\ remoteCalls[c] = 1
        /\ localCalls[c] = 1
        /\ IsError(result[c])

\* C7: the remote request and the engine invocation of one call are never
\* in flight together, the fallback starts only after the primary adapter's
\* failure was recorded, and generate hands over its result only when no
\* adapter invocation of the call is in flight.
C7_NoSpeculativeFallback ==
    \A c \in Calls :
        /\ ~(remoteInFlight[c] /\ localInFlight[c])
        /\ (pc[c] # "idle" /\ inCatch[c])
              => /\ ~remoteInFlight[c]
                 /\ primary[c] = "remote" => remoteErr[c] # NoError
                 /\ primary[c] = "local" => localErr[c] # <<>>
        /\ (pc[c] # "idle" /\ primary[c] = "remote" /\ localCalls[c] > 0)
              => inCatch[c]
        /\ Finished(c) => ~remoteInFlight[c] /\ ~localInFlight[c]

C7_Witness ==
    \E c \in Calls :
        /\ primary[c] = "remote"
        /\ inCatch[c]
        /\ localInFlight[c]

(***************************************************************************)
(* Properties of the Stream Composer                                       *)
(***************************************************************************)
HeaderLen == 44

\* C8: once the output has ended, what the consumer read is the header
\* followed by exactly the chunks the source delivered, in source order,
\* and nothing is left undelivered or unread.
C8_OutputIsHeaderThenChunks ==
    \A c \in Calls :
        (cpc[c] = "open" /\ outEnded[c])
            => /\ consumed[c] = wavHeader[c] \o Flatten(delivered[c])
               /\ srcChunks[c] = <<>>
               /\ ptBuf[c] = <<>>

\* C9: the header is emitted exactly once per stream and the output bytes
\* depend on the payload bytes only, not on how they were split in chunks.
C9_HeaderOnceAnyChunking ==
    \A c \in Calls :
        (cpc[c] = "open" /\ outEnded[c])
            => /\ headerPushes[c] = 1
               /\ LET payload == Flatten(delivered[c])
                  IN consumed[c] =
                        getWavHeader(Len(payload), sampleRate[c], 1, 16)
                        \o payload

\* C10: for every source that ends, also one that ends without a data
\* chunk, the complete output is a container: the 44-byte header first,
\* then every byte the source produced.
C10_OutputIsContainer ==
    \A c \in Calls :
        (cpc[c] = "open" /\ outEnded[c])
            => /\ Len(consumed[c]) >= HeaderLen
               /\ SubSeq(consumed[c], 1, 4) = Ascii_RIFF
               /\ SubSeq(consumed[c], 9, 12) = Ascii_WAVE
               /\ SubSeq(consumed[c], 1, HeaderLen) = wavHeader[c]
               /\ SubSeq(consumed[c], HeaderLen + 1, Len(consumed[c]))
                     = Flatten(delivered[c])


\* the source chunks sitting in the PassThrough that the consumer has not
\* read, the header chunk aside
UnreadSourceChunks(c) ==
    Len(ptBuf[c])
      - (IF headerPushes[c] > 0 /\ consumed[c] = <<>> THEN 1 ELSE 0)

\* C11: at every moment at most one source chunk has been accepted from
\* the source and not yet read by the consumer, the header aside.
C11_AtMostOneChunkInTransit ==
    \A c \in Calls :
        cpc[c] = "open" => UnreadSourceChunks(c) <= 1

(***************************************************************************)
(* Properties of the Remote Adapter                                        *)
(***************************************************************************)
\* the sample rate the claim expects for each raw PCM format tag
ExpectedRate(fmt) ==
    CASE fmt = "pcm_24000" -> 24000
      [] fmt = "pcm_16000" -> 16000
      [] OTHER -> NaN

ReturnedByRemote(c) ==
    /\ Finished(c)
    /\ IsStream(result[c])
    /\ result[c].by = "remote"

RemoteOver(c) ==
    /\ remoteCalls[c] > 0
    /\ \/ remoteErr[c] # NoError
       \/ ReturnedByRemote(c)

\* what the adapter's failure looks like, given how the fetch settled
RemoteFailureShape(c) ==
    /\ (response[c].kind = "response" /\ ~responseOk(response[c].status))
          => remoteErr[c] = StatusError(response[c].status, response[c].text)
    /\ response[c].kind = "rejected"
          => remoteErr[c].kind = "TransportError"
    /\ remoteErr[c] # NoError
          => ~(IsStream(result[c]) /\ result[c].by = "remote")

IsRawAudio(a) == a.isObject /\ ~a.isBuffer /\ a.hasAudioChannels
                   /\ a.hasSampleRate

\* the bytes after the header
Payload(bytes) == SubSeq(bytes, HeaderLen + 1, Len(bytes))

\* the i-th little-endian signed 16-bit integer of a payload
S16At(payload, i) ==
    LET u == U16At(payload, 2 * (i - 1))
    IN IF u >= 32768 THEN u - 65536 ELSE u

DecodeS16(payload) == [i \in 1..(Len(payload) \div 2) |-> S16At(payload, i)]

\* C14: processVitsAudio is a three-way case: a Buffer gives a stream of
\* exactly its bytes, a result with audioChannels and sampleRate gives one
\* buffer of header followed by PCM, and any other value fails with the
\* unsupported-audio-format error and gives no stream.
C14_ThreeWayCase ==
    lpc = "done" =>
        IF audio.isBuffer
        THEN wavOut = [ok |-> TRUE, shape |-> "encoded", bytes |-> audio.bytes]
        ELSE IF IsRawAudio(audio)
        THEN /\ wavOut.ok
             /\ Len(wavOut.bytes) >= HeaderLen
             /\ SubSeq(wavOut.bytes, 1, 4) = Ascii_RIFF
             /\ parseWavHeader(wavOut.bytes).payloadByteLength
                   = Len(Payload(wavOut.bytes))
        ELSE wavOut = [ok |-> FALSE, shape |-> "UnsupportedFormat",
                       bytes |-> <<>>]

\* C15: for a raw float result whose first channel has n samples the
\* emitted buffer is 44 + 2*n bytes: a header declaring payload length
\* 2*n, the result's rate, one channel and 16 bits, then the converted
\* samples of the first channel.
C15_PayloadIsTwiceSampleCount ==
    (lpc = "done" /\ IsRawAudio(audio)) =>
        LET ch == audio.audioChannels[1]
            n == ch.length
            h == parseWavHeader(wavOut.bytes)
        IN /\ wavOut.ok
           /\ Len(wavOut.bytes) = HeaderLen + 2 * n
           /\ h.payloadByteLength = 2 * n
           /\ h.payloadByteLength = Len(Payload(wavOut.bytes))
           /\ h.sampleRate = audio.sampleRate
           /\ h.channelCount = 1
           /\ h.bitsPerSample = 16
           /\ Payload(wavOut.bytes)
                 = Int16ArrayBytes(convertSamples(ChannelSamples(ch)))

\* round(s * 32767) clamped to the signed 16-bit range
Clamp16(n) == IF n > 32767 THEN 32767 ELSE IF n < 0 - 32768 THEN 0 - 32768
              ELSE n

\* C16: every converted sample is round(s * 32767) clamped to
\* -32768..32767, so a sample outside [-1.0, 1.0] maps to the nearest
\* bound and never wraps.
C16_SamplesAreClamped ==
    (lpc = "done" /\ IsRawAudio(audio)) =>
        LET floats == audio.audioChannels[1].buffer
            pcm == DecodeS16(Payload(wavOut.bytes))
        IN /\ Len(pcm) = Len(floats)
           /\ \A i \in 1..Len(pcm) : pcm[i] = Clamp16(RoundScaled(floats[i]))

\* C17: the samples 0.5, -1.0, 1.2 convert to 16383, -32768, 32767.
C17_ScenarioD ==
    (/\ lpc = "done"
     /\ IsRawAudio(audio)
     /\ audio.audioChannels[1] = Channel(<<5, 0 - 10, 12>>, 0, 3))
        => DecodeS16(Payload(wavOut.bytes)) = <<16383, 0 - 32768, 32767>>


(***************************************************************************)
(* Properties of the choice of the primary adapter across calls            *)
(***************************************************************************)
\* C18: in every call, whatever the calls before it did, the key being
\* set for the whole call makes the Remote Adapter the primary and the
\* key being unset for the whole call makes the Local Adapter the primary;
\* the Remote Adapter is never the primary of a call during which the key
\* was never set.
C18_PrimaryRederivedPerCall ==
    \A c \in Calls :
        primary[c] # None =>
            /\ ~keyMissed[c] => primary[c] = "remote"
            /\ ~keySeen[c] => primary[c] = "local"
            /\ primary[c] \in {"remote", "local"}

C18_Witness ==
    \E c \in Calls :
        /\ prevPrimary[c] = "local"
        /\ primary[c] = "remote"
        /\ ~keyMissed[c]


(***************************************************************************)
(* Properties of calls in progress together                                *)
(***************************************************************************)
\* the bytes the stream returned to call c must give, from what that call
\* alone received
OwnOutput(c) ==
    IF stream[c].kind = "composed"
    THEN getWavHeader(stream[c].audioLength, stream[c].sampleRate,
                      stream[c].channelCount, stream[c].bitsPerSample)
         \o body[c]
    ELSE stream[c].bytes

\* C19: with two calls in progress together, each call's adapter choice
\* follows its own reads of the key, the bytes read from its stream are
\* those of that call alone, and each composed stream carries exactly one
\* header, pushed on an event of its own source.
C19_ConcurrentCallsAreIsolated ==
    \A c \in Calls :
        /\ primary[c] # None
              => /\ ~keyMissed[c] => primary[c] = "remote"
                 /\ ~keySeen[c] => primary[c] = "local"
        /\ pushedHeader[c] => delivered[c] # <<>>
        /\ (cpc[c] \in {"open", "plain"} /\ outEnded[c])
              => consumed[c] = OwnOutput(c)
        /\ (cpc[c] = "open" /\ outEnded[c]) => headerPushes[c] = 1


(***************************************************************************)
(* Properties of the container header                                      *)
(***************************************************************************)
\* C20: the header built for any payload length, sample rate, channel
\* count and bit depth is exactly 44 bytes, and reading it back gives the
\* same four values, with channel count 1 and bit depth 16 where the
\* caller omitted them.
C20_HeaderRoundTrip ==
    /\ hpc \in {"built", "parsed"} => Len(hHeader) = HeaderLen
    /\ hpc = "parsed"
          => hParsed =
               [payloadByteLength |-> hArgs.payloadByteLength,
                sampleRate |-> hArgs.sampleRate,
                channelCount |-> IF hArgs.channelCount = Omitted THEN 1
                                 ELSE hArgs.channelCount,
                bitsPerSample |-> IF hArgs.bitsPerSample = Omitted THEN 16
                                  ELSE hArgs.bitsPerSample]

C20_Witness ==
    /\ hpc = "parsed"
    /\ hArgs.payloadByteLength = 70000
    /\ hArgs.channelCount = Omitted
    /\ hArgs.bitsPerSample = 8
    /\ hParsed.channelCount = 1
    /\ hParsed.payloadByteLength = 70000


(***************************************************************************)
(* Properties of the tier evaluator                                        *)
(***************************************************************************)
\* the tier the rule names for a user with xp points who holds the badges
\* held: the largest requirement among the tiers reached and not held
HighestUnheldTier(xp, held) ==
    LET open == {i \in 1..Len(tiers) :
                    /\ xp >= tiers[i].points_required
                    /\ ~\E k \in 1..Len(held) :
                          includes(toLowerCase(held[k]),
                                   toLowerCase(tiers[i].name))}
    IN IF open = {} THEN NoTier
       ELSE tiers[CHOOSE i \in open :
                    \A j \in open : tiers[j].points_required
                                       <= tiers[i].points_required]

\* a run that has read the profile of the user and has not yet changed it
HasReadProfile(r) ==
    \/ tpc[r] \in {"L87", "L101", "L125"}
    \/ /\ tpc[r] = "done"
       /\ tOutcome[r] \in {"no_tier", "no_badge", "no_wallet", "error"}

\* C21: for the user's points and held badges the evaluator selects the
\* tier with the largest requirement among those the points reach and no
\* held badge names, and selects none when there is no such tier.
C21_SelectsHighestUnheldTier ==
    \A r \in DOMAIN tpc :
        HasReadProfile(r)
            => eligibleTier[r] = HighestUnheldTier(points, collected)

(***************************************************************************)
(* Termination of the composed stream                                      *)
(***************************************************************************)
\* the consumer has seen the returned stream terminate; the composer has
\* no code that makes the returned stream report an error
OutTerminated(c) == outEnded[c]

\* C22: once the source of a composed stream has terminated, by 'end' or
\* by 'error', the composed stream eventually terminates.
C22_OutputTerminatesAfterSource ==
    \A c \in OneStream :
        (srcEnded[c] \/ c \in srcErrored) ~> OutTerminated(c)

(***************************************************************************)
(* Declared and emitted payload length on the remote raw-PCM path          *)
(***************************************************************************)
\* C23: on the remote raw-PCM path the payload length the header declares
\* equals the number of payload bytes the returned stream emits after the
\* header, and both are the byte length of the response body, the empty
\* body included.
C23_DeclaredLengthIsEmittedLength ==
    \A c \in Calls :
        (stream[c].kind = "composed" /\ outEnded[c])
            => /\ stream[c].audioLength = Len(body[c])
               /\ Len(consumed[c]) >= HeaderLen
               /\ U32At(consumed[c], 40) = Len(Payload(consumed[c]))
               /\ Len(Payload(consumed[c])) = Len(body[c])

(***************************************************************************)
(* Two runs of the tier evaluator together                                 *)
(***************************************************************************)
\* C24: however two runs of the handler for the same user interleave,
\* rewardBadge is not invoked twice for the same tier.
C24_TierAwardedAtMostOnce ==
    \A i, j \in 1..Len(rewardBadgeCalls) :
        rewardBadgeCalls[i].tier = rewardBadgeCalls[j].tier => i = j

(***************************************************************************)
(* Repeated runs of the tier evaluator, one after the other                *)
(***************************************************************************)
PointsRequired(name) ==
    tiers[CHOOSE i \in 1..Len(tiers) : tiers[i].name = name].points_required

\* a run that ended without an award although no collaborator failed
EndedWithoutAward(r) ==
    /\ tpc[r] = "done"
    /\ \/ tOutcome[r] \in {"no_tier", "no_badge"}
       \/ tOutcome[r] = "error" /\ tThrown[r] = "SyntaxError"

\* C25: with the points fixed and every award visible to the next run,
\* runs one after the other award each tier the points reach exactly once,
\* highest first, never more than five in all, and a run awards nothing
\* only when every such tier is held.
C25_EachReachedTierOnceDescending ==
    /\ \A i, j \in 1..Len(awarded) :
          i < j => PointsRequired(awarded[i]) > PointsRequired(awarded[j])
    /\ Len(awarded) <= Len(tiers)
    /\ \A r \in DOMAIN tpc :
          EndedWithoutAward(r)
              => \A i \in 1..Len(tiers) :
                    points >= tiers[i].points_required
                        => HoldsTier(collected, tiers[i])

(***************************************************************************)
(* Properties of the reward handlers and the providers                     *)
(***************************************************************************)
\* C26: the broadcast request is sent only after the creation request
\* returned a success status and the transaction was signed; when the
\* creation request fails the call fails and no broadcast is sent; a call
\* sends at most one creation request and at most one broadcast request.
C26_TwoStepProtocolOrdered ==
    /\ creationRequests <= 1
    /\ broadcastRequests <= 1
    /\ broadcastRequests > 0 => (creationRequests = 1 /\ creationOk /\ signed)
    /\ (creationRequests = 1 /\ rpc # "create" /\ ~creationOk)
          => (broadcastRequests = 0 /\ failed /\ returned = "false")

C26_Witness ==
    /\ handlerKind = "badge"
    /\ creationRequests = 1
    /\ creationOk
    /\ signed
    /\ broadcastRequests = 1
    /\ rpc = "broadcast"

\* C27: a reward handler returns true exactly when the reward was
\* broadcast successfully in the invocation, and after that it neither
\* returns false nor tells the callback of a failure.
C27_TrueIffBroadcastSucceeded ==
    rpc = "done"
        => /\ (returned = "true") <=> broadcastOk
           /\ broadcastOk => \A i \in 1..Len(callbackLog) :
                                 callbackLog[i] # "failure"

\* C28: a provider always returns a string and a handler always returns a
\* boolean, false whenever a collaborator failed.
C28_NoFailureEscapes ==
    /\ ppc = "done" => provResult.type = "string"
    /\ rpc = "done" => /\ returned \in {"true", "false"}
                       /\ failed => returned = "false"

C28_Witness ==
    /\ rpc = "done"
    /\ handlerKind = "badge"
    /\ failed
    /\ returned = "false"
    /\ ppc = "done"
    /\ provider = "userProfile"
    /\ provResult = StringResult("error")

(***************************************************************************)
(* The key that the remote request carries                                 *)
(***************************************************************************)
\* C29: within one generate call the remote request is sent only while the
\* key setting is present: the header of the request (textToSpeech line
\* 83) carries a key, as it did when the adapter was chosen.
C29_RequestCarriesKey ==
    [][\A c \in 1..NumCalls : httpRequests'[c] > httpRequests[c] => key]_vars

=============================================================================
